---- MODULE Spec2Model ----
(***************************************************************************)
(* Model of reviewmycoach-python-venv/upload-all-coaches.py: the           *)
(* extraction cascade of parse_pdf (single-line pass, multi-line pass,     *)
(* window pass, post-processing), the review report, its validator, the    *)
(* quarantine move, the upload stage and the batch driver main().          *)
(*                                                                         *)
(* A line of text is the sequence of its fragments (a name, a title        *)
(* phrase, an e-mail address, ...).  What the code asks of a line with a   *)
(* regular expression or a substring test is an operator over that         *)
(* sequence, so that two lines are equal exactly when their texts are.     *)
(***************************************************************************)
EXTENDS Integers, Sequences, FiniteSets, TLC

\* ------------------------------------------------------------------ bounds
MaxContent == 2          \* non-blank lines of a document given to parse_pdf
BatchSize == 2           \* documents of a batch given to main()
MaxBlocks == 2           \* records of a report given to validate_txt_file
MaxPieces == 2           \* pieces of a line given to extract_and_format_phone
MaxTokens == 3           \* tokens of a text given to clean_name_tokens
MaxLocal == 4            \* characters of the local part of an address
MaxWindowLines == 4      \* lines of a short text given to the window e-mail search
MaxLabelWords == 2       \* words of a section label given to map_to_coach_profile
MaxTasks == 4            \* pages handed to the rendering stage
MaxConcurrency == 2      \* value of --concurrency

\* ------------------------------------------------------- program constants
LookBack == 3            \* multi-line pass and name recovery: range(1, 4)
WindowRadius == 8        \* window pass: range(-8, 9)

\* ------------------------------------------------------------- vocabulary
NameFrag == "John Doe"
TitleFrag == "Head Coach"
CoachesFrag == "Coaches"
StaffFrag == "Coaching Staff"
SportFrag == "SOCCER"
SportCoachesFrag == "SOCCER COACHES"

PlainEmail == "jdoe@x.edu"        \* local part is a name
RoleEmail == "director@x.edu"     \* local part is a role word
SepEmail == "_@x.edu"             \* local part holds separators only
Emails == {PlainEmail, RoleEmail, SepEmail}

\* str.split() of a fragment
Words(frag) ==
    CASE frag = NameFrag -> <<"John", "Doe">>
      [] frag = TitleFrag -> <<"Head", "Coach">>
      [] frag = CoachesFrag -> <<"Coaches">>
      [] frag = StaffFrag -> <<"Coaching", "Staff">>
      [] frag = SportFrag -> <<"SOCCER">>
      [] frag = SportCoachesFrag -> <<"SOCCER", "COACHES">>
      [] OTHER -> <<frag>>

\* str.lower() of a word of the vocabulary
Lower(w) ==
    CASE w = "John" -> "john"
      [] w = "Doe" -> "doe"
      [] w = "Head" -> "head"
      [] w = "Coach" -> "coach"
      [] w = "Coaches" -> "coaches"
      [] w = "Coaching" -> "coaching"
      [] w = "Staff" -> "staff"
      [] w = "SOCCER" -> "soccer"
      [] w = "COACHES" -> "coaches"
      [] w = "Jdoe" -> "jdoe"
      [] w = "Director" -> "director"
      [] w = "JOHN" -> "john"
      [] w = "Strength" -> "strength"
      [] w = "Conditioning" -> "conditioning"
      [] w = "J" -> "j"
      [] OTHER -> w

\* str.capitalize() of a part of an e-mail local part
Capitalize(w) ==
    CASE w = "jdoe" -> "Jdoe"
      [] w = "director" -> "Director"
      [] OTHER -> w

RECURSIVE FlatWords(_)
\* line.split(): the whitespace-separated tokens of a text
FlatWords(t) == IF t = <<>> THEN <<>> ELSE Words(Head(t)) \o FlatWords(Tail(t))

\* --------------------------------------------------------- line predicates
\* re.search(r'[\w\.-]+@[\w\.-]+\.\w+', line): index of the matching fragment
EmailIndex(t) ==
    IF \E i \in 1..Len(t) : t[i] \in Emails
    THEN CHOOSE i \in 1..Len(t) : t[i] \in Emails /\ \A j \in 1..(i-1) : t[j] \notin Emails
    ELSE 0

EmailOf(t) == IF EmailIndex(t) = 0 THEN "" ELSE t[EmailIndex(t)]

\* line[:m.start()].strip() and name_src.split(email, 1)[0].strip()
PreEmail(t) == IF EmailIndex(t) = 0 THEN t ELSE SubSeq(t, 1, EmailIndex(t) - 1)

\* "coach" in line.lower()
HasCoach(t) ==
    \E i \in 1..Len(t) : t[i] \in {TitleFrag, CoachesFrag, StaffFrag, SportCoachesFrag}

\* the sport-section header test of the single-line pass
IsSportHeader(t) == t # <<>> /\ t[1] \in {SportFrag, SportCoachesFrag}

\* re.search(r"coaching\s+staff", raw) and 'coaching staff' in full_line_lower
HasCoachingStaff(t) == \E i \in 1..Len(t) : t[i] = StaffFrag

\* full_line_lower.strip().startswith('coaches')
StartsWithCoaches(t) == t # <<>> /\ t[1] = CoachesFrag

\* ------------------------------------------------------- the line family
\* [name] [title] [e-mail], the e-mail being the plain address; lines with an
\* address whose local part gives no name; header-like text lines; all-
\* uppercase sport headers, without and with a parenthetical
LineTexts ==
    {n \o ti \o e : n \in {<<>>, <<NameFrag>>}, ti \in {<<>>, <<TitleFrag>>},
                     e \in {<<>>, <<PlainEmail>>}}
    \cup {<<TitleFrag, RoleEmail>>, <<TitleFrag, SepEmail>>, <<SepEmail>>}
    \cup {<<CoachesFrag, NameFrag>>, <<StaffFrag>>}
    \cup {<<SportFrag>>, <<SportCoachesFrag, "(", PlainEmail, ")">>}
ContentLines == LineTexts \ {<<>>}

\* blank lines between two content lines: next to each other, just past the
\* look-back distance, at and just past the window radius
Gaps == {0, LookBack, WindowRadius - 1, WindowRadius}

Blanks(n) == [i \in 1..n |-> <<>>]

RECURSIVE DocsOf(_)
\* the documents with exactly n content lines
DocsOf(n) ==
    IF n = 0 THEN {<<>>}
    ELSE IF n = 1 THEN {<<l>> : l \in ContentLines}
    ELSE {d \o Blanks(g) \o <<l>> : d \in DocsOf(n - 1), g \in Gaps, l \in ContentLines}

\* the documents with at most n content lines
Docs(n) == UNION {DocsOf(k) : k \in 0..n}

\* --------------------------------------------------------- word predicates
IsEmailWord(w) == w \in Emails
IsPunct(w) == w \in {"(", ")"}
\* letters only: the character classes [A-Za-z'/&\-\s] of the title patterns
IsTexty(w) == ~IsEmailWord(w) /\ ~IsPunct(w)

\* needle in hay, for lowercase words of the vocabulary
ContainsSub(hay, needle) ==
    \/ hay = needle
    \/ <<hay, needle>> \in {<<"coaches", "coach">>, <<"coaching", "coach">>,
                            <<"jdoe", "doe">>, <<"director@x.edu", "director">>}

LowerSeq(s) == [i \in DOMAIN s |-> Lower(s[i])]

\* stopwords of clean_name_tokens
StopWords ==
    {"and", "of", "the", "dept", "department", "athletics", "athletic", "recreation",
     "business", "health", "trainer", "performance", "strength", "conditioning",
     "manager", "representative", "advisor", "associate", "assistant", "head",
     "coach", "coaching", "coaches", "coordinator", "director", "offensive",
     "defensive", "women", "women's", "men", "men's", "club", "ext", "sr", "jr",
     "ii", "iii", "iv", "senior", "junior", "admin", "administrative",
     "baseball", "basketball", "soccer", "football", "swimming", "diving",
     "volleyball", "lacrosse", "track", "cross", "country", "cross-country",
     "field", "field-hockey", "fieldhockey", "softball", "tennis", "golf",
     "wrestling", "hockey", "rowing", "cheer", "cheerleading", "stunt", "esports",
     "bowling", "fencing", "gymnastics", "staff", "coachng", "directory",
     "university", "college"}

\* the role words sanitize_name clears
RoleNames == {"head", "assistant", "associate", "coach", "coordinator", "director"}

\* words made of two or more digits (a year, a phone number)
DigitWords == {"2025", "555-1234"}

\* a token clean_name_tokens keeps
KeepsNameToken(w) ==
    /\ ~IsPunct(w)                                    \* stripped to nothing
    /\ w \notin DigitWords                            \* holds a digit
    /\ ~IsEmailWord(w)                                \* holds '@'
    /\ w # "J" /\ w \notin DigitWords                \* ^[A-Za-z][A-Za-z'\-]+$
    /\ Lower(w) \notin StopWords
    /\ ~\E sub \in {"coach", "assistant", "associate", "head", "recruit", "recruiting",
                     "recruiter", "coordinator", "director", "manager", "strength",
                     "conditioning", "athletic", "operations", "performance"} :
           ContainsSub(Lower(w), sub)

\* the names clean_name_tokens returns for its cleaned tokens
NamesOfCleaned(cleaned) ==
    IF cleaned = <<>> THEN << <<>>, <<>> >>
    ELSE IF Len(cleaned) = 1 THEN << <<cleaned[1]>>, <<>> >>
    ELSE \* first_name = cleaned[0]; last_name: the last candidate that differs from it
         LET cands == SelectSeq(Tail(cleaned), LAMBDA w : Lower(w) # Lower(cleaned[1]))
         IN  << <<cleaned[1]>>, IF cands = <<>> THEN <<>> ELSE <<cands[Len(cands)]>> >>

\* clean_name_tokens: <<first, last>>, each a sequence of words (<<>> is "")
CleanNameTokens(t) == NamesOfCleaned(SelectSeq(FlatWords(t), KeepsNameToken))

\* sanitize_name
SanitizeName(first, last) ==
    LET ln1 == IF first # <<>> /\ last # <<>> /\ LowerSeq(first) = LowerSeq(last)
               THEN <<>> ELSE last
        ln2 == IF Len(ln1) = 1 /\ Lower(ln1[1]) \in RoleNames THEN <<>> ELSE ln1
        fn2 == IF Len(first) = 1 /\ Lower(first[1]) \in RoleNames THEN <<>> ELSE first
    IN  <<fn2, ln2>>

\* re.split(r"[._\-]+", local) without the empty parts
EmailParts(email) ==
    CASE email = PlainEmail -> <<"jdoe">>
      [] email = RoleEmail -> <<"director">>
      [] email = SepEmail -> <<>>
      [] OTHER -> <<>>

\* email.split("@", 1)[0]
LocalPart(email) ==
    CASE email = PlainEmail -> "jdoe"
      [] email = RoleEmail -> "director"
      [] email = SepEmail -> "_"
      [] OTHER -> ""

\* derive_name_from_email; ok is FALSE when parts[0] raises IndexError
DeriveNameFromEmail(email) ==
    LET parts == EmailParts(email) IN
    IF email = "" THEN [ok |-> TRUE, first |-> <<>>, last |-> <<>>]
    ELSE IF Len(parts) >= 2
    THEN [ok |-> TRUE, first |-> <<Capitalize(parts[1])>>, last |-> <<Capitalize(parts[2])>>]
    ELSE IF parts = <<>>
    THEN [ok |-> FALSE, first |-> <<>>, last |-> <<>>]
    ELSE [ok |-> TRUE, first |-> <<Capitalize(parts[1])>>, last |-> <<>>]

\* a word that starts a role phrase: the \b(head|...|coach|...)\b.*$ cuts
CutWords ==
    {"head", "assistant", "associate", "coach", "coaching", "coordinator",
     "director", "staff"}

\* index of the first word the pattern matches at, 0 if none
FirstCut(ws, cuts) ==
    IF \E i \in 1..Len(ws) : Lower(ws[i]) \in cuts \/ (ws[i] = RoleEmail /\ "director" \in cuts)
    THEN CHOOSE i \in 1..Len(ws) :
            /\ Lower(ws[i]) \in cuts \/ (ws[i] = RoleEmail /\ "director" \in cuts)
            /\ \A j \in 1..(i-1) :
                 ~(Lower(ws[j]) \in cuts \/ (ws[j] = RoleEmail /\ "director" \in cuts))
    ELSE 0

\* re.sub(<cut pattern>, "", text): the words before the first cut
CutAtRole(ws, cuts) ==
    IF FirstCut(ws, cuts) = 0 THEN ws ELSE SubSeq(ws, 1, FirstCut(ws, cuts) - 1)

\* extract_coach_title: the role phrase of a line, as a sequence of words
ExtractCoachTitle(t) ==
    LET ws == SelectSeq(FlatWords(t), LAMBDA w : ~IsEmailWord(w)) IN
    IF ~HasCoach(t) THEN <<>>
    ELSE IF \E i \in 1..(Len(ws) - 1) : Lower(ws[i]) = "head" /\ Lower(ws[i+1]) = "coach"
    THEN <<"Head", "Coach">>
    ELSE <<"coach">>

\* role words of the trailing-descriptor pattern of split_name_and_title
SplitCutWords ==
    {"head", "assistant", "associate", "coach", "coordinator", "director",
     "recruit", "recruiting", "recruiter", "operation", "operations", "strength",
     "conditioning", "athletic", "performance", "men", "women", "men's", "women's"}

\* \bcoach at the start of a word
StartsCoach(w) == ContainsSub(Lower(w), "coach")

\* first index of the longest suffix made of letters-only words
TextySuffixStart(ws) ==
    IF \E i \in 1..Len(ws) : ~IsTexty(ws[i])
    THEN 1 + CHOOSE i \in 1..Len(ws) : ~IsTexty(ws[i]) /\ \A j \in (i+1)..Len(ws) : IsTexty(ws[j])
    ELSE 1

\* the return value of split_name_and_title
NamesWithTitle(names, title) == <<names[1], names[2], title>>

\* split_name_and_title on the words ws of the text, n of them, the longest
\* letters-only suffix starting at s0
SplitWords(pre, ws, n, s0) ==
    LET \* Case A: a role phrase holding \bcoach, then a name of two words at the end
        roleThenName ==
            /\ n >= 3
            /\ \E k \in 1..(n - 2) : StartsCoach(ws[k]) /\ \A j \in k..n : IsTexty(ws[j])
        \* a phrase of two to seven words that ends in "coach"
        endsInCoach == n >= 2 /\ Lower(ws[n]) = "coach" /\ s0 <= n - 1
        \* a letters-only suffix that holds the word "coach"
        coachSuffix == endsInCoach \/ \E k \in s0..n : Lower(ws[k]) = "coach"
    IN  NamesWithTitle(
            CleanNameTokens(CutAtRole(IF roleThenName THEN SubSeq(ws, n - 1, n)
                                      ELSE IF coachSuffix THEN SubSeq(ws, 1, s0 - 1)
                                      ELSE ws,
                                      SplitCutWords)),
            IF roleThenName THEN SubSeq(ws, 1, n - 2)
            ELSE IF coachSuffix THEN SubSeq(ws, s0, n)
            ELSE ExtractCoachTitle(pre))

\* split_name_and_title: <<first_name, last_name, title>> of a pre-e-mail text
SplitNameAndTitle(pre) ==
    IF FlatWords(pre) = <<>> THEN << <<>>, <<>>, <<>> >>
    ELSE SplitWords(pre, FlatWords(pre), Len(FlatWords(pre)), TextySuffixStart(FlatWords(pre)))

\* re.sub(rf"^\s*{re.escape(name)}\s+", "", t): a leading name is dropped
DropLeading(ws, name) ==
    IF ws # <<>> /\ name # <<>> /\ <<Lower(ws[1])>> = LowerSeq(name) THEN Tail(ws) ELSE ws

\* the rest is the title if it holds "coach", else extract_coach_title speaks
TitleOrExtracted(t, namePart) ==
    IF \E i \in 1..Len(t) : StartsCoach(t[i]) THEN t ELSE ExtractCoachTitle(namePart)

\* derive_title_from_namepart
DeriveTitleFromNamepart(namePart, first, last) ==
    TitleOrExtracted(DropLeading(DropLeading(FlatWords(namePart), first), last), namePart)

\* variant: the context is looked at before the candidate
NormalizeTitleContextFirst(title, context) ==
    IF \E i \in 1..Len(FlatWords(context)) : Lower(FlatWords(context)[i]) = "head"
    THEN <<"Head", "Coach">>
    ELSE IF title # <<>> /\ \E i \in 1..Len(title) : StartsCoach(title[i]) THEN title
    ELSE <<"Assistant", "Coach">>

\* normalize_title
NormalizeTitle(title, context) ==
    IF title # <<>> /\ \E i \in 1..Len(title) : StartsCoach(title[i]) THEN title
    ELSE IF \E i \in 1..Len(FlatWords(context)) : Lower(FlatWords(context)[i]) = "head"
    THEN <<"Head", "Coach">>
    ELSE <<"Assistant", "Coach">>

\* strip_name_from_title: the words of the title that are not a name of the coach
StripNameFromTitle(title, first, last) ==
    SelectSeq(title, LAMBDA w :
        /\ ~(Len(first) = 1 /\ Lower(w) = Lower(first[1]))
        /\ ~(Len(last) = 1 /\ Lower(w) = Lower(last[1])))

\* re.match(r"^([A-Za-z][A-Za-z'\-]+)\s+Coach\b", title): "<Word> Coach" at the start
WordThenCoach(title) == Len(title) >= 2 /\ IsTexty(title[1]) /\ Lower(title[2]) = "coach"

\* variant: the word before "Coach" is dropped whatever the username is
StripSurnameSingleAlways(title, username, aux) ==
    IF WordThenCoach(title) THEN <<"Coach">> \o SubSeq(title, 3, Len(title)) ELSE title

\* the surname-leak correction of the single-line pass
StripSurnameSingle(title, username, aux) ==
    IF WordThenCoach(title)
       /\ \/ ContainsSub(username, Lower(title[1]))
          \/ aux.first # <<>> /\ <<Lower(title[1])>> = LowerSeq(aux.first)
          \/ aux.last # <<>> /\ <<Lower(title[1])>> = LowerSeq(aux.last)
    THEN <<"Coach">> \o SubSeq(title, 3, Len(title))
    ELSE title

\* the surname-leak correction of the window pass
StripSurnameWindow(title, username) ==
    IF WordThenCoach(title) /\ ContainsSub(username, Lower(title[1]))
    THEN <<"Coach">> \o SubSeq(title, 3, Len(title))
    ELSE title

\* clean_title_text: drops phone numbers, and a digit run with all that follows it
CleanTitleText(title) ==
    IF \E i \in 1..Len(title) : title[i] \in DigitWords
    THEN SubSeq(title, 1, (CHOOSE i \in 1..Len(title) :
                              title[i] \in DigitWords
                              /\ \A j \in 1..(i-1) : title[j] \notin DigitWords) - 1)
    ELSE title

\* build_username_from_name: the lowercase [a-z0-9] runs of both names, dot-joined
BuildUsernameFromName(first, last) == LowerSeq(first) \o LowerSeq(last)

\* ---------------------------------------------------------------- records
NoSection == <<>>

Entry(first, last, email, username, fullLine, title, section, uploadable) ==
    [first_name |-> first, last_name |-> last, email |-> email, username |-> username,
     full_line |-> fullLine, title |-> title, sport_section |-> section,
     uploadable |-> uploadable]

\* a result that stands for an exception raised out of parse_pdf
Raised == [ok |-> FALSE]

\* ------------------------------------------------------- single-line pass
\* re.match(r"^([A-Z][A-Za-z'\-]+)\s+([A-Z][A-Za-z'\-]+)(?:\s+[A-Z]...)?$", prev)
IsStandaloneName(t) ==
    LET ws == FlatWords(t) IN
    /\ Len(ws) \in {2, 3}
    /\ \A i \in 1..Len(ws) : IsTexty(ws[i]) /\ Lower(ws[i]) # ws[i]

\* a line above the e-mail line that can give the name: not empty, no e-mail,
\* no "coach", a standalone name
IsRecoverable(lines, k) ==
    /\ k >= 1
    /\ lines[k] # <<>>
    /\ EmailOf(lines[k]) = ""
    /\ ~HasCoach(lines[k])
    /\ IsStandaloneName(lines[k])

RECURSIVE NearestName(_, _, _)
\* for back in range(1, 4): distance to the nearest such line, from b on; 0 if none
NearestName(lines, i, b) ==
    IF b > LookBack THEN 0
    ELSE IF IsRecoverable(lines, i - b) THEN b
    ELSE NearestName(lines, i, b + 1)

\* the name of the nearest of the three lines above that is a standalone name
\* (m_name.group(1), m_name.group(2))
RecoverName(lines, i) ==
    LET b == NearestName(lines, i, 1) IN
    IF b = 0 THEN << <<>>, <<>> >>
    ELSE << <<FlatWords(lines[i - b])[1]>>, <<FlatWords(lines[i - b])[2]>> >>

\* the names a heuristic leaves, sanitized
NameResult(n) == [ok |-> TRUE, first |-> n[1], last |-> n[2]]

\* "<Last> Coach" heuristic of the single-line and window passes (re.search on
\* the title or prefix), df being derive_name_from_email(email): [ok, first, last]
LastCoachHeuristic(source, first, last, df) ==
    LET cand == <<source[1]>>
        fn == IF first # <<>> THEN first
              ELSE IF df.last # <<>> /\ LowerSeq(df.last) = LowerSeq(cand) THEN df.first
              \* df_first.lower().endswith(last.lower()), for words of the vocabulary
              ELSE IF df.first # <<>>
                      /\ \/ Lower(df.first[1]) = Lower(cand[1])
                         \/ <<Lower(df.first[1]), Lower(cand[1])>> = <<"jdoe", "doe">>
                      /\ Lower(df.first[1]) # Lower(cand[1])
              \* df_first[:len(df_first) - len(last)].strip("._-").capitalize()
              THEN <<IF <<Lower(df.first[1]), Lower(cand[1])>> = <<"jdoe", "doe">>
                     THEN "J" ELSE df.first[1]>>
              ELSE df.first
    IN  IF last # <<>> \/ ~WordThenCoach(source) THEN [ok |-> TRUE, first |-> first, last |-> last]
        ELSE IF first = <<>> /\ ~df.ok THEN Raised
        ELSE NameResult(SanitizeName(fn, cand))

\* "<Last> Coach" heuristic on the title (re.match), single-line and multi-line
\* passes, df being derive_name_from_email(email)
CamdenHeuristic(title, first, last, email, df) ==
    LET cand == <<title[1]>>
        fn == IF first # <<>> THEN first
              ELSE IF df.first # <<>> /\ (df.last = <<>> \/ LowerSeq(df.last) = LowerSeq(cand))
              THEN df.first
              ELSE IF df.last # <<>> /\ LowerSeq(df.last) # LowerSeq(cand) THEN df.last
              ELSE <<>>
    IN  IF last # <<>> \/ ~WordThenCoach(title) THEN [ok |-> TRUE, first |-> first, last |-> last]
        ELSE IF first = <<>> /\ email # "" /\ ~df.ok THEN Raised
        ELSE NameResult(SanitizeName(fn, cand))

\* the first usable name: the one of the line, else the standalone name found
\* above, else the one derived from the e-mail
NameOrFallback(n0, rec, df) ==
    IF n0 # << <<>>, <<>> >> THEN n0
    ELSE IF rec # << <<>>, <<>> >> THEN SanitizeName(rec[1], rec[2])
    ELSE SanitizeName(df.first, df.last)

\* title = clean_title_text(title) or extract_coach_title(line)
TitleOrDefault(title, line) == IF title # <<>> THEN title ELSE ExtractCoachTitle(line)

\* the single-line record once the second "<Last> Coach" heuristic h2 has spoken
SingleLineRecord(line, section, namePart, df, title0, h2) ==
    IF ~df.ok \/ ~h2.ok THEN Raised
    ELSE [ok |-> TRUE,
          entry |-> Entry(h2.first, h2.last, EmailOf(line), <<LocalPart(EmailOf(line))>>, line,
                          TitleOrDefault(
                              CleanTitleText(
                                  StripSurnameSingle(
                                      StripNameFromTitle(NormalizeTitle(title0, namePart),
                                                         h2.first, h2.last),
                                      LocalPart(EmailOf(line)), df)),
                              line),
                          section, TRUE)]

\* the names h1 are known and the title is fixed: the heuristic on the title
SingleLineTitled(line, section, namePart, df, title0, h1) ==
    SingleLineRecord(line, section, namePart, df, title0,
                     CamdenHeuristic(title0, h1.first, h1.last, EmailOf(line), df))

\* the first heuristic h1 has spoken: the title of the split, else derived
SingleLineNamed(line, section, namePart, s, df, h1) ==
    IF ~h1.ok THEN Raised
    ELSE SingleLineTitled(line, section, namePart, df,
                          IF s[3] # <<>> THEN s[3]
                          ELSE DeriveTitleFromNamepart(namePart, h1.first, h1.last),
                          h1)

\* the name n1 is chosen: the "<Last> Coach" heuristic on the title or the tokens
SingleLineHeuristic(line, section, namePart, s, toks, df, n1) ==
    SingleLineNamed(line, section, namePart, s, df,
                    LastCoachHeuristic(IF s[3] # <<>> THEN s[3] ELSE toks, n1[1], n1[2], df))

\* the split s, the tokens, the name above and the e-mail name are at hand
SingleLineSplit(line, section, namePart, s, toks, rec, df) ==
    SingleLineHeuristic(line, section, namePart, s, toks, df,
             NameOrFallback(
                 SanitizeName(IF s[1] # <<>> \/ s[2] # <<>> THEN s[1]
                              ELSE IF Len(toks) >= 1 THEN <<toks[1]>> ELSE <<>>,
                              IF s[1] # <<>> \/ s[2] # <<>> THEN s[2]
                              ELSE IF Len(toks) >= 2 THEN <<toks[2]>> ELSE <<>>),
                 rec, df))

\* the body of the single-line loop for a line with an e-mail and "coach":
\* [ok, entry]
SingleLineEntry(lines, i, section) ==
    SingleLineSplit(lines[i], section, PreEmail(lines[i]),
                    SplitNameAndTitle(PreEmail(lines[i])), FlatWords(PreEmail(lines[i])),
                    RecoverName(lines, i), DeriveNameFromEmail(EmailOf(lines[i])))

\* a loop appends the record r and the raw line, or parse_pdf has raised
Emit(acc, r, raw) ==
    IF ~r.ok THEN [acc EXCEPT !.ok = FALSE]
    ELSE [acc EXCEPT !.entries = Append(@, r.entry), !.all_lines = Append(@, raw)]

RECURSIVE SingleLineFrom(_, _, _, _)
\* the single-line loop from line i on: [ok, entries, all_lines]
SingleLineFrom(lines, i, section, acc) ==
    IF i > Len(lines) \/ ~acc.ok THEN acc
    ELSE IF IsSportHeader(lines[i]) THEN SingleLineFrom(lines, i + 1, lines[i], acc)
    ELSE IF EmailOf(lines[i]) = "" \/ ~HasCoach(lines[i])
    THEN SingleLineFrom(lines, i + 1, section, acc)
    ELSE SingleLineFrom(lines, i + 1, section,
                        Emit(acc, SingleLineEntry(lines, i, section), lines[i]))

\* single_line_entries is made empty right before the loop; all_lines at the top
SingleLinePass(lines, allLines) ==
    SingleLineFrom(lines, 1, NoSection, [ok |-> TRUE, entries |-> <<>>, all_lines |-> allLines])

\* -------------------------------------------------------- multi-line pass
\* the line above the title line is taken as the coach's name
IsNameCandidate(t) ==
    /\ t # <<>>
    /\ EmailOf(t) = ""
    \* no keyword of the name-candidate filter occurs in the line
    /\ ~\E i \in 1..Len(t) : t[i] \in {StaffFrag, SportFrag, SportCoachesFrag, "2025"}
    /\ Len(FlatWords(t)) >= 2

\* distance back to the title line: the nearest of the three lines above
\* that holds "coach"; 0 if none
TitleBack(lines, i) ==
    IF \E j \in 1..LookBack : i - j >= 1 /\ HasCoach(lines[i - j])
    THEN CHOOSE j \in 1..LookBack :
            /\ i - j >= 1 /\ HasCoach(lines[i - j])
            /\ \A k \in 1..(j-1) : ~HasCoach(lines[i - k])
    ELSE 0

\* the multi-line record once the "<Last> Coach" heuristic h has spoken: [ok, entry]
MultiLineRecord(line, coachTitle, coachName, h) ==
    IF ~h.ok THEN Raised
    ELSE [ok |-> TRUE,
          entry |-> Entry(h.first, h.last, EmailOf(line), <<LocalPart(EmailOf(line))>>,
                          coachName \o coachTitle \o <<EmailOf(line)>>,
                          CleanTitleText(FlatWords(coachTitle)), NoSection, TRUE)]

\* the name n0 of the name line is known: else the one derived from the e-mail
MultiLineNamed(line, coachTitle, coachName, df, n0, n1) ==
    IF n0 = << <<>>, <<>> >> /\ ~df.ok THEN Raised
    ELSE MultiLineRecord(line, coachTitle, coachName,
                         CamdenHeuristic(FlatWords(coachTitle), n1[1], n1[2], EmailOf(line), df))

\* first_name = tokens[0], last_name = the other tokens, sanitized
MultiLineTokens(line, coachTitle, coachName, toks, df) ==
    MultiLineNamed(line, coachTitle, coachName, df,
                   SanitizeName(IF toks # <<>> THEN <<toks[1]>> ELSE <<>>,
                                IF Len(toks) > 1 THEN Tail(toks) ELSE <<>>),
                   NameOrFallback(SanitizeName(IF toks # <<>> THEN <<toks[1]>> ELSE <<>>,
                                               IF Len(toks) > 1 THEN Tail(toks) ELSE <<>>),
                                  << <<>>, <<>> >>, df))

\* the title line lies j lines above the e-mail line i; the line above it
\* gives the name if it is a name candidate
MultiLineAt(lines, i, j) ==
    MultiLineTokens(lines[i], lines[i - j],
                    IF i - j - 1 >= 1 /\ IsNameCandidate(lines[i - j - 1])
                    THEN lines[i - j - 1] ELSE <<>>,
                    IF i - j - 1 >= 1 /\ IsNameCandidate(lines[i - j - 1])
                    THEN FlatWords(lines[i - j - 1]) ELSE <<>>,
                    DeriveNameFromEmail(EmailOf(lines[i])))

\* the body of the multi-line loop for an e-mail line with a title line above:
\* [ok, entry]
MultiLineEntry(lines, i) == MultiLineAt(lines, i, TitleBack(lines, i))

RECURSIVE MultiLineFrom(_, _, _)
\* the multi-line loop from line i on: [ok, entries, all_lines]
MultiLineFrom(lines, i, acc) ==
    IF i > Len(lines) \/ ~acc.ok THEN acc
    ELSE IF EmailOf(lines[i]) = "" \/ TitleBack(lines, i) = 0
    THEN MultiLineFrom(lines, i + 1, acc)
    ELSE MultiLineFrom(lines, i + 1,
                       Emit(acc, MultiLineEntry(lines, i),
                            lines[i - TitleBack(lines, i)] \o <<"->">> \o lines[i]))

\* the loop appends to the entries and all_lines lists made at the top of parse_pdf
MultiLinePass(lines, es, allLines) ==
    MultiLineFrom(lines, 1, [ok |-> TRUE, entries |-> es, all_lines |-> allLines])

\* ------------------------------------------------------------ window pass
\* for d in range(-8, 9): the offsets in the order the loop tries them
LookRange == [k \in 1..(2 * WindowRadius + 1) |-> k - WindowRadius - 1]

\* index of the line whose e-mail the window search returns; 0 if none
WindowEmailLine(lines, i) ==
    LET hit(k) == /\ LookRange[k] # 0
                  /\ i + LookRange[k] >= 1 /\ i + LookRange[k] <= Len(lines)
                  /\ EmailOf(lines[i + LookRange[k]]) # ""
    IN  IF EmailOf(lines[i]) # "" THEN i
        ELSE IF \E k \in DOMAIN LookRange : hit(k)
        THEN i + LookRange[CHOOSE k \in DOMAIN LookRange : hit(k) /\ \A m \in 1..(k-1) : ~hit(m)]
        ELSE 0

\* the window record once the "<Last> Coach" heuristic h has spoken: [ok, entry]
WindowRecord(line, email, prefix, title, h) ==
    IF ~h.ok THEN Raised
    ELSE [ok |-> TRUE,
          entry |-> Entry(h.first, h.last, email, <<LocalPart(email)>>, line \o <<email>>,
                          CleanTitleText(
                              StripSurnameWindow(
                                  StripNameFromTitle(NormalizeTitle(title, prefix),
                                                     h.first, h.last),
                                  LocalPart(email))),
                          NoSection, TRUE)]

\* the name n0 of the prefix is known: else the one derived from the e-mail
WindowNamed(line, email, prefix, title, df, n0, n1) ==
    IF n0 = << <<>>, <<>> >> /\ ~df.ok THEN Raised
    ELSE WindowRecord(line, email, prefix, title,
                      IF prefix = <<>> THEN [ok |-> TRUE, first |-> n1[1], last |-> n1[2]]
                      ELSE LastCoachHeuristic(FlatWords(prefix), n1[1], n1[2], df))

\* the prefix of the e-mail is split into s; title is extract_coach_title(line)
WindowSplit(line, email, prefix, title, s, df) ==
    WindowNamed(line, email, prefix, IF title # <<>> THEN title ELSE s[3], df,
                SanitizeName(s[1], s[2]),
                NameOrFallback(SanitizeName(s[1], s[2]), << <<>>, <<>> >>, df))

\* the record of a "coach" line with an unseen e-mail on it or near it: [ok, entry]
WindowEmailEntry(lines, i, at) ==
    WindowSplit(lines[i], EmailOf(lines[at]), PreEmail(lines[at]), ExtractCoachTitle(lines[i]),
                SplitNameAndTitle(PreEmail(lines[at])), DeriveNameFromEmail(EmailOf(lines[at])))

\* the no-email record with its names and title
BareRecord(line, names, title) ==
    Entry(names[1], names[2], "", <<>>, line,
          IF title # <<>> THEN title ELSE <<"coach">>, NoSection, FALSE)

\* the record of a "coach" line with no usable e-mail: for the report only
WindowBareEntry(line) ==
    BareRecord(line,
               IF HasCoachingStaff(line) THEN << <<>>, <<>> >>
               ELSE CleanNameTokens(CutAtRole(FlatWords(line), CutWords)),
               ExtractCoachTitle(line))

\* the window loop appends the record r and notes its e-mail and its line
WindowEmit(acc, r, line) ==
    IF ~r.ok THEN [acc EXCEPT !.ok = FALSE]
    ELSE [acc EXCEPT !.entries = Append(@, r.entry),
                     !.seen_emails = @ \cup {r.entry.email},
                     !.seen_full = @ \cup {line}]

\* the e-mail search has returned line at (0: none) for the "coach" line i
WindowAt(lines, i, at, acc) ==
    IF at # 0 /\ EmailOf(lines[at]) \notin acc.seen_emails
    THEN WindowEmit(acc, WindowEmailEntry(lines, i, at), lines[i])
    ELSE [acc EXCEPT !.entries = Append(@, WindowBareEntry(lines[i])),
                     !.seen_full = @ \cup {lines[i]}]

RECURSIVE WindowFrom(_, _, _)
\* the window loop from line i on: [ok, entries, seen_emails, seen_full]
WindowFrom(lines, i, acc) ==
    IF i > Len(lines) \/ ~acc.ok THEN acc
    ELSE IF ~HasCoach(lines[i]) \/ lines[i] \in acc.seen_full
    THEN WindowFrom(lines, i + 1, acc)
    ELSE WindowFrom(lines, i + 1, WindowAt(lines, i, WindowEmailLine(lines, i), acc))

\* seen_emails and seen_full start with what the records hold
WindowPass(lines, es) ==
    WindowFrom(lines, 1, [ok |-> TRUE, entries |-> es,
                          seen_emails |-> {es[k].email : k \in DOMAIN es} \ {""},
                          seen_full |-> {es[k].full_line : k \in DOMAIN es} \ {<<>>}])

\* ---------------------------------------------------------- post-process
IsHeaderLike(e) ==
    \/ HasCoachingStaff(e.full_line)
    \/ StartsWithCoaches(e.full_line)
    \/ LowerSeq(e.first_name \o e.last_name) \in {<<>>, <<"staff">>, <<"coaches">>, <<"coaching">>}

\* variant: the username is filled in but the uploadable flag is left as it was
PostProcessEntryKeepsFlag(e) ==
    IF e.email = "" /\ e.username = <<>> /\ ~IsHeaderLike(e)
       /\ BuildUsernameFromName(e.first_name, e.last_name) # <<>>
    THEN [e EXCEPT !.username = BuildUsernameFromName(e.first_name, e.last_name)]
    ELSE e

PostProcessEntry(e) ==
    IF e.email = "" /\ e.username = <<>> /\ ~IsHeaderLike(e)
       /\ BuildUsernameFromName(e.first_name, e.last_name) # <<>>
    THEN [e EXCEPT !.username = BuildUsernameFromName(e.first_name, e.last_name),
                   !.uploadable = TRUE]
    ELSE e

PostProcess(es) == [k \in DOMAIN es |-> PostProcessEntry(es[k])]

\* ------------------------------------------------- report and validator
\* the block write_to_txt writes for one record
Block(e) ==
    [name |-> e.first_name \o e.last_name, email |-> e.email, username |-> e.username,
     title |-> e.title, marker |-> (e.uploadable = FALSE), original |-> e.full_line]

\* validate_txt_file: the number of blocks with an issue
\* (a block raises none when it holds the marker "will NOT be uploaded", when
\* it is a header section, or when name, username and title are filled)
IssueCount(blocks) ==
    Cardinality({k \in DOMAIN blocks :
                    ~ \/ blocks[k].marker
                      \/ HasCoachingStaff(blocks[k].original)
                      \/ /\ blocks[k].name # <<>>
                         /\ blocks[k].username # <<>>
                         /\ blocks[k].title # <<>>})

ValidateTxtFile(blocks) == IssueCount(blocks) = 0

\* ---------------------------------------------------------- upload stage
\* the part of map_to_coach_profile the store keeps apart: an unclaimed profile
CoachProfile(e) ==
    [username |-> e.username, displayName |-> e.first_name \o e.last_name,
     email |-> e.email, isClaimed |-> FALSE]

Absent == [exists |-> FALSE]
Stored(p) == [exists |-> TRUE, data |-> p]

\* document ids the records of the line family can be stored under
StoreKeys == {<<"jdoe">>, <<"director">>, <<"_">>, <<"john", "doe">>}

\* the batch driver reads documents of at most one content line, and a few
\* of two adjacent lines that give two records
DriverDocs ==
    DocsOf(0) \cup DocsOf(1)
    \cup {<<<<TitleFrag, PlainEmail>>, l>> :
             l \in {<<NameFrag, TitleFrag, PlainEmail>>, <<StaffFrag>>, <<CoachesFrag, NameFrag>>}}

\* lines 1295-1299 of main: usernames and uploadable rebuilt for e-mail-less records
RebuildUsername(e) ==
    LET uname == BuildUsernameFromName(e.first_name, e.last_name) IN
    IF e.email # "" THEN e
    ELSE [e EXCEPT !.username = IF uname # <<>> THEN uname ELSE e.username,
                   !.uploadable = (uname # <<>>)]

\* ------------------------------------------- extract_and_format_phone
\* a line is read here character by character; a shape pattern is a sequence
\* of atoms: "d" a digit, "s*" and "s+" runs of white space, "b" a word
\* boundary, anything else the character itself
Digits == {"0", "1", "2", "3", "4", "5", "6", "7", "8", "9"}

\* \b at position i: exactly one of the characters around it is a word character
WordBoundary(t, i) ==
    LET IsWordChar(c) == c \in Digits \cup {"e", "t", "x"}
    IN  (i > 1 /\ IsWordChar(t[i - 1])) # (i <= Len(t) /\ IsWordChar(t[i]))

RECURSIVE SkipSpace(_, _)
SkipSpace(t, i) == IF i <= Len(t) /\ t[i] = " " THEN SkipSpace(t, i + 1) ELSE i

\* the position after a match of atoms k.. of pat at position i of t, 0 if
\* there is none (a run of white space is always followed by a digit atom,
\* so the greedy run is the only one that can match)
RECURSIVE MatchFrom(_, _, _, _)
MatchFrom(t, i, pat, k) ==
    IF k > Len(pat) THEN i
    ELSE IF pat[k] = "b" THEN (IF WordBoundary(t, i) THEN MatchFrom(t, i, pat, k + 1) ELSE 0)
    ELSE IF pat[k] = "s*" THEN MatchFrom(t, SkipSpace(t, i), pat, k + 1)
    ELSE IF i > Len(t) THEN 0
    ELSE IF pat[k] = "s+"
         THEN (IF t[i] = " " THEN MatchFrom(t, SkipSpace(t, i), pat, k + 1) ELSE 0)
    ELSE IF pat[k] = "d"
         THEN (IF t[i] \in Digits THEN MatchFrom(t, i + 1, pat, k + 1) ELSE 0)
    ELSE IF t[i] = pat[k] THEN MatchFrom(t, i + 1, pat, k + 1) ELSE 0

\* re.search(pattern, line): the leftmost match
RECURSIVE SearchFrom(_, _, _)
SearchFrom(t, pat, i) ==
    IF i > Len(t) + 1 THEN [found |-> FALSE]
    ELSE IF MatchFrom(t, i, pat, 1) # 0
         THEN [found |-> TRUE, text |-> SubSeq(t, i, MatchFrom(t, i, pat, 1) - 1)]
         ELSE SearchFrom(t, pat, i + 1)

\* re.match(r'^...$', phone)
FullMatch(phone, pat) == MatchFrom(phone, 1, pat, 1) = Len(phone) + 1

\* the shapes of phone_patterns, and those of the tests made on the match
Shape(name) ==
    CASE name = "ParenDashed" ->
            <<"(", "d", "d", "d", ")", "s*", "d", "d", "d", "-", "d", "d", "d", "d">>
      [] name = "ParenDotted" ->
            <<"(", "d", "d", "d", ")", "s*", "d", "d", "d", ".", "d", "d", "d", "d">>
      [] name = "Dashed10" -> <<"d", "d", "d", "-", "d", "d", "d", "-", "d", "d", "d", "d">>
      [] name = "Dotted10" -> <<"d", "d", "d", ".", "d", "d", "d", ".", "d", "d", "d", "d">>
      [] name = "SpaceDash10" -> <<"d", "d", "d", "s+", "d", "d", "d", "-", "d", "d", "d", "d">>
      [] name = "Dashed7" -> <<"d", "d", "d", "-", "d", "d", "d", "d">>
      [] name = "Dotted7" -> <<"d", "d", "d", ".", "d", "d", "d", "d">>
      [] name = "Bare7" -> <<"b", "d", "d", "d", "d", "d", "d", "d", "b">>
      [] name = "Digits7" -> <<"d", "d", "d", "d", "d", "d", "d">>
      [] name = "ParenArea" -> <<"(", "d", "d", "d", ")">>

\* variant: the 7-digit shapes are tried before the 10-digit ones
PhonePatternsShortFirst ==
    <<Shape("Dashed7"), Shape("Dotted7"), Shape("Bare7"), Shape("ParenDashed"),
      Shape("ParenDotted"), Shape("Dashed10"), Shape("Dotted10"), Shape("SpaceDash10")>>

\* phone_patterns, in the order they are tried
PhonePatterns ==
    <<Shape("ParenDashed"), Shape("ParenDotted"), Shape("Dashed10"), Shape("Dotted10"),
      Shape("SpaceDash10"), Shape("Dashed7"), Shape("Dotted7"), Shape("Bare7")>>

\* str.strip()
RECURSIVE Strip(_)
Strip(t) ==
    IF t = <<>> THEN t
    ELSE IF Head(t) = " " THEN Strip(Tail(t))
    ELSE IF t[Len(t)] = " " THEN Strip(SubSeq(t, 1, Len(t) - 1))
    ELSE t

\* f"({area}) {number}"
WithArea(area, number) == <<"(">> \o area \o <<")", " ">> \o number

\* the area code is None, written <<>>, or three digits
NoArea == <<>>
NoPhone == <<"None">>

\* lines 31-58: what is returned for the matched text
FormatPhone(phone, area_code) ==
    IF /\ area_code # NoArea
       /\ \/ FullMatch(phone, Shape("Dashed7"))
          \/ FullMatch(phone, Shape("Dotted7"))
          \/ FullMatch(phone, Shape("Digits7"))
    THEN IF FullMatch(phone, Shape("Digits7"))
         THEN WithArea(area_code, SubSeq(phone, 1, 3) \o <<"-">> \o SubSeq(phone, 4, Len(phone)))
         ELSE WithArea(area_code, phone)
    ELSE IF FullMatch(phone, Shape("Dashed10"))
         THEN WithArea(SubSeq(phone, 1, 3), SubSeq(phone, 5, Len(phone)))
    ELSE IF FullMatch(phone, Shape("SpaceDash10"))
         THEN WithArea(SubSeq(phone, 1, 3), SubSeq(phone, Len(phone) - 7, Len(phone)))
    ELSE IF MatchFrom(phone, 1, Shape("ParenArea"), 1) # 0 THEN phone
    ELSE phone

\* the loop over phone_patterns from pattern k on
RECURSIVE TryPatterns(_, _, _)
TryPatterns(line, area_code, k) ==
    IF k > Len(PhonePatterns) THEN NoPhone
    ELSE IF SearchFrom(line, PhonePatterns[k], 1).found
         THEN FormatPhone(Strip(SearchFrom(line, PhonePatterns[k], 1).text), area_code)
         ELSE TryPatterns(line, area_code, k + 1)

ExtractAndFormatPhone(line, area_code) == TryPatterns(line, area_code, 1)

\* ----------------------------------- derive_name_from_email, by character
\* an address is read here character by character: letters in both cases,
\* the three separators and "@"
UpperChar(c) == CASE c = "a" -> "A" [] c = "b" -> "B" [] OTHER -> c

\* str.capitalize(): first character upper case, the rest lower case
CapitalizeChars(t) ==
    [i \in DOMAIN t |->
        IF i = 1 THEN UpperChar(t[i])
        ELSE CASE t[i] = "A" -> "a" [] t[i] = "B" -> "b" [] OTHER -> t[i]]

\* email.split('@', 1)[0]
RECURSIVE BeforeAt(_)
BeforeAt(t) ==
    IF t = <<>> \/ Head(t) = "@" THEN <<>> ELSE <<Head(t)>> \o BeforeAt(Tail(t))

\* re.split(r"[._\-]+", local) without its empty parts; cur is the part being read
RECURSIVE SplitParts(_, _)
SplitParts(t, cur) ==
    IF t = <<>> THEN (IF cur = <<>> THEN <<>> ELSE <<cur>>)
    ELSE IF Head(t) \in {".", "_", "-"}
         THEN (IF cur = <<>> THEN <<>> ELSE <<cur>>) \o SplitParts(Tail(t), <<>>)
         ELSE SplitParts(Tail(t), Append(cur, Head(t)))

\* [A-Z][a-z]+
IsCapWord(t) ==
    Len(t) >= 2 /\ t[1] \in {"A", "B"} /\ \A i \in 2..Len(t) : t[i] \in {"a", "b"}

\* ^([A-Z][a-z]+)([A-Z][a-z]+)$: where the second word starts, 0 if no match
CamelCut(token) ==
    IF \E k \in 1..Len(token) :
          IsCapWord(SubSeq(token, 1, k)) /\ IsCapWord(SubSeq(token, k + 1, Len(token)))
    THEN CHOOSE k \in 1..Len(token) :
            IsCapWord(SubSeq(token, 1, k)) /\ IsCapWord(SubSeq(token, k + 1, Len(token)))
    ELSE 0

NamePair(first, last) == [ok |-> TRUE, first |-> first, last |-> last]

\* variant: a single part is never split at its capitals
NameFromPartsNoCamel(parts) ==
    IF Len(parts) >= 2 /\ Len(parts[1]) = 1
    THEN NamePair(<<UpperChar(parts[1][1])>>, CapitalizeChars(parts[2]))
    ELSE IF Len(parts) >= 2
    THEN NamePair(CapitalizeChars(parts[1]), CapitalizeChars(parts[2]))
    ELSE IF parts = <<>> THEN [ok |-> FALSE]
    ELSE NamePair(CapitalizeChars(parts[1]), <<>>)

\* lines 398-411: the names for the non-empty parts of the local part; ok is
\* FALSE when parts[0] raises IndexError
NameFromParts(parts) ==
    IF Len(parts) >= 2 /\ Len(parts[1]) = 1
    THEN NamePair(<<UpperChar(parts[1][1])>>, CapitalizeChars(parts[2]))
    ELSE IF Len(parts) >= 2
    THEN NamePair(CapitalizeChars(parts[1]), CapitalizeChars(parts[2]))
    ELSE IF parts = <<>> THEN [ok |-> FALSE]
    ELSE IF CamelCut(parts[1]) # 0
    THEN NamePair(SubSeq(parts[1], 1, CamelCut(parts[1])),
                  SubSeq(parts[1], CamelCut(parts[1]) + 1, Len(parts[1])))
    ELSE NamePair(CapitalizeChars(parts[1]), <<>>)

\* derive_name_from_email on the characters of the address
DeriveNameFromEmailChars(email) ==
    IF email = <<>> \/ ~\E i \in DOMAIN email : email[i] = "@" THEN NamePair(<<>>, <<>>)
    ELSE NameFromParts(SplitParts(BeforeAt(email), <<>>))

\* ----------------------------------- map_to_coach_profile: the sports tags
\* a section label, a provenance line and the fields of pdf_info are read
\* here character by character; Spell gives the characters of a text
Spell(name) ==
    CASE name = "basketball" -> <<"b", "a", "s", "k", "e", "t", "b", "a", "l", "l">>
      [] name = "soccer" -> <<"s", "o", "c", "c", "e", "r">>
      [] name = "football" -> <<"f", "o", "o", "t", "b", "a", "l", "l">>
      [] name = "baseball" -> <<"b", "a", "s", "e", "b", "a", "l", "l">>
      [] name = "softball" -> <<"s", "o", "f", "t", "b", "a", "l", "l">>
      [] name = "swimming" -> <<"s", "w", "i", "m", "m", "i", "n", "g">>
      [] name = "track" -> <<"t", "r", "a", "c", "k">>
      [] name = "field" -> <<"f", "i", "e", "l", "d">>
      [] name = "cross country" -> <<"c", "r", "o", "s", "s", " ", "c", "o", "u", "n", "t", "r",
            "y">>
      [] name = "volleyball" -> <<"v", "o", "l", "l", "e", "y", "b", "a", "l", "l">>
      [] name = "lacrosse" -> <<"l", "a", "c", "r", "o", "s", "s", "e">>
      [] name = "field hockey" -> <<"f", "i", "e", "l", "d", " ", "h", "o", "c", "k", "e", "y">>
      [] name = "men" -> <<"m", "e", "n">>
      [] name = "women" -> <<"w", "o", "m", "e", "n">>
      [] name = "men's soccer" -> <<"m", "e", "n", "'", "s", " ", "s", "o", "c", "c", "e", "r">>
      [] name = "mens soccer" -> <<"m", "e", "n", "s", " ", "s", "o", "c", "c", "e", "r">>
      [] name = "goalkeeper" -> <<"g", "o", "a", "l", "k", "e", "e", "p", "e", "r">>
      [] name = "goalie" -> <<"g", "o", "a", "l", "i", "e">>
      [] name = "midfielder" -> <<"m", "i", "d", "f", "i", "e", "l", "d", "e", "r">>
      [] name = "defender" -> <<"d", "e", "f", "e", "n", "d", "e", "r">>
      [] name = "forward" -> <<"f", "o", "r", "w", "a", "r", "d">>
      [] name = "striker" -> <<"s", "t", "r", "i", "k", "e", "r">>
      [] name = "tennis" -> <<"t", "e", "n", "n", "i", "s">>
      [] name = "golf" -> <<"g", "o", "l", "f">>
      [] name = "wrestling" -> <<"w", "r", "e", "s", "t", "l", "i", "n", "g">>
      [] name = "hockey" -> <<"h", "o", "c", "k", "e", "y">>
      [] name = "rowing" -> <<"r", "o", "w", "i", "n", "g">>
      [] name = "strength" -> <<"s", "t", "r", "e", "n", "g", "t", "h">>
      [] name = "conditioning" -> <<"c", "o", "n", "d", "i", "t", "i", "o", "n", "i", "n", "g">>
      [] name = "bryant" -> <<"b", "r", "y", "a", "n", "t">>
      [] name = "rowan" -> <<"r", "o", "w", "a", "n">>
      [] name = "MEN" -> <<"M", "E", "N">>
      [] name = "WOMEN" -> <<"W", "O", "M", "E", "N">>
      [] name = "BASKETBALL" -> <<"B", "A", "S", "K", "E", "T", "B", "A", "L", "L">>
      [] name = "SOCCER" -> <<"S", "O", "C", "C", "E", "R">>
      [] name = "FIELD HOCKEY" -> <<"F", "I", "E", "L", "D", " ", "H", "O", "C", "K", "E", "Y">>
      [] name = "TRACK" -> <<"T", "R", "A", "C", "K">>
      [] name = "LACROSSE" -> <<"L", "A", "C", "R", "O", "S", "S", "E">>
      [] name = "(WOMEN)" -> <<"(", "W", "O", "M", "E", "N", ")">>
      [] name = "Head Coach" -> <<"H", "e", "a", "d", " ", "C", "o", "a", "c", "h">>
      [] name = "Soccer Coach" -> <<"S", "o", "c", "c", "e", "r", " ", "C", "o", "a", "c", "h">>
      [] name = "Strength Conditioning Coach" -> <<"S", "t", "r", "e", "n", "g", "t", "h", " ", "C",
            "o", "n", "d", "i", "t", "i", "o", "n", "i", "n", "g", " ", "C", "o", "a", "c",
            "h">>
      [] name = "Field Hockey Coach" -> <<"F", "i", "e", "l", "d", " ", "H", "o", "c", "k", "e", "y",
            " ", "C", "o", "a", "c", "h">>
      [] name = "Bryant" -> <<"B", "r", "y", "a", "n", "t">>
      [] name = "Rowan" -> <<"R", "o", "w", "a", "n">>
      [] name = "Rutgers" -> <<"R", "u", "t", "g", "e", "r", "s">>
      [] name = "Bryant University Men's Soccer Coaches Directory" -> <<"B", "r", "y", "a", "n", "t",
            " ", "U", "n", "i", "v", "e", "r", "s", "i", "t", "y", " ", "M", "e", "n", "'",
            "s", " ", "S", "o", "c", "c", "e", "r", " ", "C", "o", "a", "c", "h", "e", "s",
            " ", "D", "i", "r", "e", "c", "t", "o", "r", "y">>
      [] name = "Rowan University Athletics Staff Directory" -> <<"R", "o", "w", "a", "n", " ", "U",
            "n", "i", "v", "e", "r", "s", "i", "t", "y", " ", "A", "t", "h", "l", "e", "t",
            "i", "c", "s", " ", "S", "t", "a", "f", "f", " ", "D", "i", "r", "e", "c", "t",
            "o", "r", "y">>
      [] name = "Rutgers University Athletics Staff Directory" -> <<"R", "u", "t", "g", "e", "r",
            "s", " ", "U", "n", "i", "v", "e", "r", "s", "i", "t", "y", " ", "A", "t", "h",
            "l", "e", "t", "i", "c", "s", " ", "S", "t", "a", "f", "f", " ", "D", "i", "r",
            "e", "c", "t", "o", "r", "y">>
      [] name = "coaching" -> <<"c", "o", "a", "c", "h", "i", "n", "g">>
      [] name = "staff" -> <<"s", "t", "a", "f", "f">>
      [] name = "university" -> <<"u", "n", "i", "v", "e", "r", "s", "i", "t", "y">>
      [] name = "2025" -> <<"2", "0", "2", "5">>
      [] name = "/" -> <<"/">>
      [] name = "pm" -> <<"p", "m">>
      [] name = "am" -> <<"a", "m">>
      [] name = "director of" -> <<"d", "i", "r", "e", "c", "t", "o", "r", " ", "o", "f">>
      [] name = "John Doe" -> <<"J", "o", "h", "n", " ", "D", "o", "e">>
      [] name = "John Doe 2024" -> <<"J", "o", "h", "n", " ", "D", "o", "e", " ", "2", "0", "2",
            "4">>
      [] name = "John Doe 2025" -> <<"J", "o", "h", "n", " ", "D", "o", "e", " ", "2", "0", "2",
            "5">>
      [] name = "John Doe 3" -> <<"J", "o", "h", "n", " ", "D", "o", "e", " ", "3">>
      [] name = "John/Jane Doe" -> <<"J", "o", "h", "n", "/", "J", "a", "n", "e", " ", "D", "o",
            "e">>
      [] name = "Adam Fox" -> <<"A", "d", "a", "m", " ", "F", "o", "x">>
      [] name = "John" -> <<"J", "o", "h", "n">>
      [] name = "jdoe@x.edu John" -> <<"j", "d", "o", "e", "@", "x", ".", "e", "d", "u", " ", "J",
            "o", "h", "n">>
      [] name = "Coaching Staff" -> <<"C", "o", "a", "c", "h", "i", "n", "g", " ", "S", "t", "a",
            "f", "f">>
      [] name = "Director of Sports" -> <<"D", "i", "r", "e", "c", "t", "o", "r", " ", "o", "f", " ",
            "S", "p", "o", "r", "t", "s">>
      [] name = "Rowan University" -> <<"R", "o", "w", "a", "n", " ", "U", "n", "i", "v", "e", "r",
            "s", "i", "t", "y">>
      [] name = "John Doe 7pm" -> <<"J", "o", "h", "n", " ", "D", "o", "e", " ", "7", "p", "m">>
      [] name = "and" -> <<"a", "n", "d">>
      [] name = "of" -> <<"o", "f">>
      [] name = "the" -> <<"t", "h", "e">>
      [] name = "dept" -> <<"d", "e", "p", "t">>
      [] name = "department" -> <<"d", "e", "p", "a", "r", "t", "m", "e", "n", "t">>
      [] name = "athletics" -> <<"a", "t", "h", "l", "e", "t", "i", "c", "s">>
      [] name = "athletic" -> <<"a", "t", "h", "l", "e", "t", "i", "c">>
      [] name = "recreation" -> <<"r", "e", "c", "r", "e", "a", "t", "i", "o", "n">>
      [] name = "business" -> <<"b", "u", "s", "i", "n", "e", "s", "s">>
      [] name = "health" -> <<"h", "e", "a", "l", "t", "h">>
      [] name = "trainer" -> <<"t", "r", "a", "i", "n", "e", "r">>
      [] name = "performance" -> <<"p", "e", "r", "f", "o", "r", "m", "a", "n", "c", "e">>
      [] name = "manager" -> <<"m", "a", "n", "a", "g", "e", "r">>
      [] name = "representative" -> <<"r", "e", "p", "r", "e", "s", "e", "n", "t", "a", "t", "i",
            "v", "e">>
      [] name = "advisor" -> <<"a", "d", "v", "i", "s", "o", "r">>
      [] name = "associate" -> <<"a", "s", "s", "o", "c", "i", "a", "t", "e">>
      [] name = "assistant" -> <<"a", "s", "s", "i", "s", "t", "a", "n", "t">>
      [] name = "head" -> <<"h", "e", "a", "d">>
      [] name = "coach" -> <<"c", "o", "a", "c", "h">>
      [] name = "coaches" -> <<"c", "o", "a", "c", "h", "e", "s">>
      [] name = "coordinator" -> <<"c", "o", "o", "r", "d", "i", "n", "a", "t", "o", "r">>
      [] name = "director" -> <<"d", "i", "r", "e", "c", "t", "o", "r">>
      [] name = "offensive" -> <<"o", "f", "f", "e", "n", "s", "i", "v", "e">>
      [] name = "defensive" -> <<"d", "e", "f", "e", "n", "s", "i", "v", "e">>
      [] name = "women's" -> <<"w", "o", "m", "e", "n", "'", "s">>
      [] name = "men's" -> <<"m", "e", "n", "'", "s">>
      [] name = "club" -> <<"c", "l", "u", "b">>
      [] name = "ext" -> <<"e", "x", "t">>
      [] name = "sr" -> <<"s", "r">>
      [] name = "jr" -> <<"j", "r">>
      [] name = "ii" -> <<"i", "i">>
      [] name = "iii" -> <<"i", "i", "i">>
      [] name = "iv" -> <<"i", "v">>
      [] name = "senior" -> <<"s", "e", "n", "i", "o", "r">>
      [] name = "junior" -> <<"j", "u", "n", "i", "o", "r">>
      [] name = "admin" -> <<"a", "d", "m", "i", "n">>
      [] name = "administrative" -> <<"a", "d", "m", "i", "n", "i", "s", "t", "r", "a", "t", "i",
            "v", "e">>
      [] name = "diving" -> <<"d", "i", "v", "i", "n", "g">>
      [] name = "cross" -> <<"c", "r", "o", "s", "s">>
      [] name = "country" -> <<"c", "o", "u", "n", "t", "r", "y">>
      [] name = "cross-country" -> <<"c", "r", "o", "s", "s", "-", "c", "o", "u", "n", "t", "r",
            "y">>
      [] name = "field-hockey" -> <<"f", "i", "e", "l", "d", "-", "h", "o", "c", "k", "e", "y">>
      [] name = "fieldhockey" -> <<"f", "i", "e", "l", "d", "h", "o", "c", "k", "e", "y">>
      [] name = "cheer" -> <<"c", "h", "e", "e", "r">>
      [] name = "cheerleading" -> <<"c", "h", "e", "e", "r", "l", "e", "a", "d", "i", "n", "g">>
      [] name = "stunt" -> <<"s", "t", "u", "n", "t">>
      [] name = "esports" -> <<"e", "s", "p", "o", "r", "t", "s">>
      [] name = "bowling" -> <<"b", "o", "w", "l", "i", "n", "g">>
      [] name = "fencing" -> <<"f", "e", "n", "c", "i", "n", "g">>
      [] name = "gymnastics" -> <<"g", "y", "m", "n", "a", "s", "t", "i", "c", "s">>
      [] name = "coachng" -> <<"c", "o", "a", "c", "h", "n", "g">>
      [] name = "directory" -> <<"d", "i", "r", "e", "c", "t", "o", "r", "y">>
      [] name = "college" -> <<"c", "o", "l", "l", "e", "g", "e">>
      [] name = "recruit" -> <<"r", "e", "c", "r", "u", "i", "t">>
      [] name = "recruiting" -> <<"r", "e", "c", "r", "u", "i", "t", "i", "n", "g">>
      [] name = "recruiter" -> <<"r", "e", "c", "r", "u", "i", "t", "e", "r">>
      [] name = "operations" -> <<"o", "p", "e", "r", "a", "t", "i", "o", "n", "s">>
      [] name = "Doe" -> <<"D", "o", "e">>
      [] name = "Headley" -> <<"H", "e", "a", "d", "l", "e", "y">>
      [] name = "Coachman" -> <<"C", "o", "a", "c", "h", "m", "a", "n">>
      [] name = "Smith-Jones" -> <<"S", "m", "i", "t", "h", "-", "J", "o", "n", "e", "s">>
      [] name = "Smith-Men" -> <<"S", "m", "i", "t", "h", "-", "M", "e", "n">>
      [] name = "Men" -> <<"M", "e", "n">>
      [] name = "HEAD" -> <<"H", "E", "A", "D">>
      [] name = "J" -> <<"J">>
      [] name = "O'Neil" -> <<"O", "'", "N", "e", "i", "l">>
      [] name = "Doe2" -> <<"D", "o", "e", "2">>
      [] name = "a@b" -> <<"a", "@", "b">>
      [] name = "Doe," -> <<"D", "o", "e", ",">>
      [] name = "(Doe)" -> <<"(", "D", "o", "e", ")">>
      [] name = "Doe/Men" -> <<"D", "o", "e", "/", "M", "e", "n">>
      [] name = "Recruiting" -> <<"R", "e", "c", "r", "u", "i", "t", "i", "n", "g">>
      [] name = "-" -> <<"-">>
      [] name = "Coach-Men's" -> <<"C", "o", "a", "c", "h", "-", "M", "e", "n", "'", "s">>
      [] OTHER -> <<>>

\* str.lower()
LowerText(t) ==
    LET upper == <<"A", "B", "C", "D", "E", "F", "G", "H", "I", "J", "K", "L", "M",
                   "N", "O", "P", "Q", "R", "S", "T", "U", "V", "W", "X", "Y", "Z">>
        lower == <<"a", "b", "c", "d", "e", "f", "g", "h", "i", "j", "k", "l", "m",
                   "n", "o", "p", "q", "r", "s", "t", "u", "v", "w", "x", "y", "z">>
    IN  [i \in DOMAIN t |->
            IF \E k \in DOMAIN upper : upper[k] = t[i]
            THEN lower[CHOOSE k \in DOMAIN upper : upper[k] = t[i]]
            ELSE t[i]]

\* needle in hay
Contains(hay, needle) ==
    \E i \in 0..(Len(hay) - Len(needle)) : SubSeq(hay, i + 1, i + Len(needle)) = needle

\* lines 994-1029: the tag of the section label, in lower case; <<>> if the
\* label is empty or no rule matches
SectionSports(section) ==
    LET has(word) == Contains(section, Spell(word)) IN
    IF section = <<>> THEN <<>>
    ELSE IF has("basketball")
         THEN (IF has("men") THEN <<"Basketball (Men)">>
               ELSE IF has("women") THEN <<"Basketball (Women)">>
               ELSE <<"Basketball">>)
    ELSE IF has("soccer")
         THEN (IF has("men") THEN <<"Soccer (Men)">>
               ELSE IF has("women") THEN <<"Soccer (Women)">>
               ELSE <<"Soccer">>)
    ELSE IF has("football") THEN <<"Football">>
    ELSE IF has("baseball") THEN <<"Baseball">>
    ELSE IF has("softball") THEN <<"Softball">>
    ELSE IF has("swimming") THEN <<"Swimming">>
    ELSE IF has("track") \/ has("field") THEN <<"Track & Field">>
    ELSE IF has("cross country") THEN <<"Cross Country">>
    ELSE IF has("volleyball") THEN <<"Volleyball">>
    ELSE IF has("lacrosse")
         THEN (IF has("women") THEN <<"Lacrosse (Women)">> ELSE <<"Lacrosse">>)
    ELSE IF has("field hockey") THEN <<"Field Hockey">>
    ELSE <<>>

\* lines 1033-1065: the loop over sport_keywords from keyword k on, in the
\* order of the dictionary; every distinct tag hit is kept
RECURSIVE KeywordSports(_, _, _)
KeywordSports(role_text, k, sports) ==
    LET sport_keywords ==
            <<
              <<"soccer", "Soccer">>,
              <<"football", "Soccer">>,
              <<"men's soccer", "Soccer">>,
              <<"mens soccer", "Soccer">>,
              <<"goalkeeper", "Soccer">>,
              <<"goalie", "Soccer">>,
              <<"midfielder", "Soccer">>,
              <<"defender", "Soccer">>,
              <<"forward", "Soccer">>,
              <<"striker", "Soccer">>,
              <<"baseball", "Baseball">>,
              <<"basketball", "Basketball">>,
              <<"tennis", "Tennis">>,
              <<"swimming", "Swimming">>,
              <<"track", "Track & Field">>,
              <<"field", "Track & Field">>,
              <<"cross country", "Cross Country">>,
              <<"volleyball", "Volleyball">>,
              <<"golf", "Golf">>,
              <<"wrestling", "Wrestling">>,
              <<"lacrosse", "Lacrosse">>,
              <<"softball", "Softball">>,
              <<"hockey", "Hockey">>,
              <<"rowing", "Rowing">>,
              <<"strength", "Strength & Conditioning">>,
              <<"conditioning", "Strength & Conditioning">>
            >>
    IN  IF k > Len(sport_keywords) THEN sports
        ELSE KeywordSports(role_text, k + 1,
                 IF /\ Contains(role_text, Spell(sport_keywords[k][1]))
                    /\ \A i \in DOMAIN sports : sports[i] # sport_keywords[k][2]
                 THEN Append(sports, sport_keywords[k][2])
                 ELSE sports)

\* lines 989-1080 of map_to_coach_profile: the sports of a record; the
\* section is <<>> when the record has none
MapSports(section, full_line, pdf_info) ==
    LET fromSection == SectionSports(LowerText(section))
        fromText == IF fromSection # <<>> THEN fromSection
                    ELSE KeywordSports(LowerText(full_line), 1, <<>>)
        default_sport ==
            IF /\ Contains(LowerText(pdf_info.university), Spell("bryant"))
               /\ Contains(LowerText(pdf_info.source), Spell("soccer"))
            THEN <<"Soccer">>
            ELSE IF Contains(LowerText(pdf_info.university), Spell("rowan")) THEN <<>>
            ELSE <<"Soccer">>
    IN  IF fromText # <<>> THEN fromText
        ELSE IF default_sport # <<>> THEN default_sport
        ELSE <<"General Athletics">>

\* ------------------------------- parse_pdf: the name line of the multi-line pass
\* re.search(r'[\w\.-]+@[\w\.-]+\.\w+', text), read character by character
HasEmailText(t) ==
    LET word(c) == c \notin {" ", "@", "/", ".", "-", "(", ")", "'", "&"}
        local(c) == word(c) \/ c \in {".", "-"}
    IN  \E i \in 2..Len(t) :
            /\ t[i] = "@" /\ local(t[i - 1])
            /\ \E k \in (i + 2)..(Len(t) - 1) :
                   /\ t[k] = "." /\ word(t[k + 1])
                   /\ \A m \in (i + 1)..(k - 1) : local(t[m])

\* the test made on the line right above the title line (potential_name_line)
IsNameCandidateText(t) ==
    /\ t # <<>>
    /\ ~HasEmailText(t)
    /\ \A keyword \in {"coaching", "staff", "soccer", "university", "2025", "/", "pm",
                        "am", "director of"} : ~Contains(LowerText(t), Spell(keyword))
    /\ Cardinality({i \in DOMAIN t : t[i] # " " /\ (i = 1 \/ t[i - 1] = " ")}) >= 2

\* ------------------------------------- clean_name_tokens, one token at a time
\* variant: a hyphenated token is tested as a whole only
CleanNameTokenWholeOnly(token) ==
    LET strip == {",", ".", ":", ";", "|", "/", "(", ")", "&", "[", "]", "{", "}", "-"}
        kept == {i \in DOMAIN token : token[i] \notin strip}
        t_stripped ==
            IF kept = {} THEN <<>>
            ELSE SubSeq(token, CHOOSE i \in kept : \A j \in kept : i <= j,
                        CHOOSE i \in kept : \A j \in kept : i >= j)
        low == LowerText(t_stripped)
        stopwords == {Spell(w) : w \in StopWords}
        role_substrings ==
            {Spell(w) : w \in {"coach", "assistant", "associate", "head", "recruit",
                               "recruiting", "recruiter", "coordinator", "director",
                               "manager", "strength", "conditioning", "athletic",
                               "operations", "performance"}}
        sep(c) == c \in {"-", "/"}
        \* re.split(r"[-/]+", low), the empty parts left out
        parts ==
            {SubSeq(low, a, b) : <<a, b>> \in
                {x \in (DOMAIN low) \X (DOMAIN low) :
                    /\ x[1] <= x[2]
                    /\ \A m \in x[1]..x[2] : ~sep(low[m])
                    /\ x[1] = 1 \/ sep(low[x[1] - 1])
                    /\ x[2] = Len(low) \/ sep(low[x[2] + 1])}}
        letter(c) == LowerText(<<c>>)[1] \in
                        {"a", "b", "c", "d", "e", "f", "g", "h", "i", "j", "k", "l", "m",
                         "n", "o", "p", "q", "r", "s", "t", "u", "v", "w", "x", "y", "z"}
    IN  IF t_stripped = <<>> THEN <<>>
        ELSE IF \E i \in DOMAIN t_stripped :
                   t_stripped[i] \in {"0", "1", "2", "3", "4", "5", "6", "7", "8", "9", "@"}
        THEN <<>>
        ELSE IF low \in stopwords THEN <<>>
        ELSE IF \E sub \in role_substrings : Contains(low, sub) THEN <<>>
        \* re.match(r"^[A-Za-z][A-Za-z'\-]+$", t_stripped)
        ELSE IF ~(/\ Len(t_stripped) >= 2
                  /\ letter(t_stripped[1])
                  /\ \A i \in 2..Len(t_stripped) :
                         letter(t_stripped[i]) \/ t_stripped[i] \in {"'", "-"})
        THEN <<>>
        ELSE <<t_stripped>>

\* the loop body of clean_name_tokens, character by character: the list
\* `cleaned` after the token, <<>> when the token is dropped
CleanNameToken(token) ==
    LET strip == {",", ".", ":", ";", "|", "/", "(", ")", "&", "[", "]", "{", "}", "-"}
        kept == {i \in DOMAIN token : token[i] \notin strip}
        t_stripped ==
            IF kept = {} THEN <<>>
            ELSE SubSeq(token, CHOOSE i \in kept : \A j \in kept : i <= j,
                        CHOOSE i \in kept : \A j \in kept : i >= j)
        low == LowerText(t_stripped)
        stopwords == {Spell(w) : w \in StopWords}
        role_substrings ==
            {Spell(w) : w \in {"coach", "assistant", "associate", "head", "recruit",
                               "recruiting", "recruiter", "coordinator", "director",
                               "manager", "strength", "conditioning", "athletic",
                               "operations", "performance"}}
        sep(c) == c \in {"-", "/"}
        \* re.split(r"[-/]+", low), the empty parts left out
        parts ==
            {SubSeq(low, a, b) : <<a, b>> \in
                {x \in (DOMAIN low) \X (DOMAIN low) :
                    /\ x[1] <= x[2]
                    /\ \A m \in x[1]..x[2] : ~sep(low[m])
                    /\ x[1] = 1 \/ sep(low[x[1] - 1])
                    /\ x[2] = Len(low) \/ sep(low[x[2] + 1])}}
        letter(c) == LowerText(<<c>>)[1] \in
                        {"a", "b", "c", "d", "e", "f", "g", "h", "i", "j", "k", "l", "m",
                         "n", "o", "p", "q", "r", "s", "t", "u", "v", "w", "x", "y", "z"}
    IN  IF t_stripped = <<>> THEN <<>>
        ELSE IF \E i \in DOMAIN t_stripped :
                   t_stripped[i] \in {"0", "1", "2", "3", "4", "5", "6", "7", "8", "9", "@"}
        THEN <<>>
        ELSE IF low \in stopwords THEN <<>>
        ELSE IF \E sub \in role_substrings : Contains(low, sub) THEN <<>>
        ELSE IF \E part \in parts :
                   part \in stopwords \/ \E sub \in role_substrings : Contains(part, sub)
        THEN <<>>
        \* re.match(r"^[A-Za-z][A-Za-z'\-]+$", t_stripped)
        ELSE IF ~(/\ Len(t_stripped) >= 2
                  /\ letter(t_stripped[1])
                  /\ \A i \in 2..Len(t_stripped) :
                         letter(t_stripped[i]) \/ t_stripped[i] \in {"'", "-"})
        THEN <<>>
        ELSE <<t_stripped>>

\* ------------------------------------------------------------------ state
VARIABLES
    caller,               \* "twice": a harness calls parse_pdf twice; "main": the driver
    lines,                \* the text of the document being parsed, line by line
    pc,                   \* where main / parse_pdf / upload_to_firestore stands
    single_line_entries,  \* records of the single-line pass
    entries,              \* the record list parse_pdf builds and main uploads
    all_lines,            \* raw "coach" lines kept for the report appendix
    multi_ran,            \* the multi-line loop was entered in this call
    run,                  \* number of the current call of parse_pdf on the text
    first_result,         \* outcome of the first call, kept by the harness
    mode,                 \* "dry" (--dry-run), "key" (--key given) or "none"
    idx,                  \* position of main's loop in pdf_paths
    attempted,            \* positions main has started to process, in order
    failed,               \* positions whose parse or upload raised
    disk,                 \* per position: state and place of the report file
    report,               \* content of the current report: [blocks, raw]
    wpos,                 \* next record write_to_txt writes
    valid,                \* result of validate_txt_file for the current document
    u,                    \* next record of upload_to_firestore's loop
    existing,             \* the snapshot coach_ref.get() returned
    uploaded_count,       \* counters of the current upload_to_firestore call
    skipped_count,
    store,                \* the coaches collection: document id -> snapshot
    written,              \* records of the current document written to the store
    errors,               \* per-record errors the upload loop caught and printed
    call,                 \* a helper called on its own: its name and arguments
    ret,                  \* what that helper returned, NoReturn before it has
    sem,                  \* value of the asyncio.Semaphore of the rendering stage
    workers,              \* per task: "waiting" for sem, "rendering" or "finished"
    finished,             \* results as_completed has ready, in order of completion
    results               \* the results list of the rendering stage

parseVars == <<lines, pc, single_line_entries, entries, all_lines, multi_ran>>
renderVars == <<sem, workers, finished, results>>
harnessVars == <<caller, run, first_result, call, ret, renderVars>>
driverVars == <<mode, idx, attempted, failed>>
fileVars == <<disk, report, wpos, valid>>
uploadVars == <<u, existing, uploaded_count, skipped_count, store, written, errors>>
vars == <<caller, lines, pc, single_line_entries, entries, all_lines, multi_ran, run,
          first_result, mode, idx, attempted, failed, disk, report, wpos, valid, u,
          existing, uploaded_count, skipped_count, store, written, errors, call, ret,
          sem, workers, finished, results>>

\* what a call of parse_pdf gave its caller
Outcome == IF pc = "raised" THEN [ok |-> FALSE, records |-> {}]
           ELSE [ok |-> TRUE, records |-> {entries[k] : k \in DOMAIN entries}]

EmptyReport == [blocks |-> <<>>, raw |-> <<>>]
NoCall == [fn |-> "none"]
NoReturn == [returned |-> FALSE]

InitCommon ==
    /\ sem = 0
    /\ workers = <<>>
    /\ finished = <<>>
    /\ results = <<>>
    /\ single_line_entries = <<>>
    /\ entries = <<>>
    /\ all_lines = <<>>
    /\ multi_ran = FALSE
    /\ run = 1
    /\ first_result = [ok |-> FALSE, records |-> {<<>>}]
    /\ attempted = <<>>
    /\ failed = {}
    /\ disk = [k \in 1..BatchSize |-> [state |-> "absent", place |-> "out"]]
    /\ report = EmptyReport
    /\ wpos = 1
    /\ valid = TRUE
    /\ u = 1
    /\ existing = Absent
    /\ uploaded_count = 0
    /\ skipped_count = 0
    /\ store = [k \in StoreKeys |-> Absent]
    /\ written = {}
    /\ errors = 0

\* a harness is about to call parse_pdf(path) on some document, with no report
Init ==
    /\ InitCommon
    /\ call = NoCall
    /\ ret = NoReturn
    /\ caller = "twice"
    /\ pc = "start"
    /\ lines \in Docs(MaxContent)
    /\ mode = "none"
    /\ idx = 1

\* variant: entries and all_lines outlive the call (lists shared between calls)
ParseStartShared ==
    /\ pc = "start"
    /\ single_line_entries' = <<>>
    /\ multi_ran' = FALSE
    /\ pc' = "single"
    /\ UNCHANGED <<lines, entries, all_lines, harnessVars, driverVars, fileVars, uploadVars>>

\* parse_pdf is entered: its locals are created empty
ParseStart ==
    /\ pc = "start"
    /\ single_line_entries' = <<>>
    /\ entries' = <<>>
    /\ all_lines' = <<>>
    /\ multi_ran' = FALSE
    /\ pc' = "single"
    /\ UNCHANGED <<lines, harnessVars, driverVars, fileVars, uploadVars>>

\* Method 1: the single-line loop over all lines
SingleLine ==
    /\ pc = "single"
    /\ \E r \in {SingleLinePass(lines, all_lines)} :
       IF r.ok
       THEN /\ single_line_entries' = r.entries
            /\ all_lines' = r.all_lines
            /\ pc' = "branch"
       ELSE /\ pc' = "raised"
            /\ UNCHANGED <<single_line_entries, all_lines>>
    /\ UNCHANGED <<lines, entries, multi_ran, harnessVars, driverVars, fileVars, uploadVars>>

\* variant: the multi-line loop runs whatever the single-line pass found
MultiLineAlways ==
    /\ pc = "branch"
    /\ multi_ran' = TRUE
    /\ \E r \in {MultiLinePass(lines, entries, all_lines)} :
       IF r.ok
       THEN /\ entries' = r.entries
            /\ all_lines' = r.all_lines
            /\ pc' = "window"
       ELSE /\ pc' = "raised"
            /\ UNCHANGED <<entries, all_lines>>
    /\ UNCHANGED <<lines, single_line_entries, harnessVars, driverVars, fileVars, uploadVars>>

\* Method 2: the multi-line loop, entered when the single-line pass found nothing
MultiLine ==
    /\ pc = "branch"
    /\ single_line_entries = <<>>
    /\ multi_ran' = TRUE
    /\ \E r \in {MultiLinePass(lines, entries, all_lines)} :
       IF r.ok
       THEN /\ entries' = r.entries
            /\ all_lines' = r.all_lines
            /\ pc' = "window"
       ELSE /\ pc' = "raised"
            /\ UNCHANGED <<entries, all_lines>>
    /\ UNCHANGED <<lines, single_line_entries, harnessVars, driverVars, fileVars, uploadVars>>

\* else: entries = single_line_entries
AdoptSingleLine ==
    /\ pc = "branch"
    /\ single_line_entries # <<>>
    /\ entries' = single_line_entries
    /\ pc' = "window"
    /\ UNCHANGED <<lines, single_line_entries, all_lines, multi_ran, harnessVars,
                   driverVars, fileVars, uploadVars>>

\* Method 3: the window loop over all lines
Window ==
    /\ pc = "window"
    /\ \E r \in {WindowPass(lines, entries)} :
       IF r.ok
       THEN /\ entries' = r.entries
            /\ pc' = "post"
       ELSE /\ pc' = "raised"
            /\ UNCHANGED entries
    /\ UNCHANGED <<lines, single_line_entries, all_lines, multi_ran, harnessVars,
                   driverVars, fileVars, uploadVars>>

\* the post-processing loop; then write_to_txt if output_txt and entries, else return
PostProcessStep ==
    /\ pc = "post"
    /\ entries' = PostProcess(entries)
    /\ pc' = IF caller = "main" /\ entries # <<>> THEN "write" ELSE "returned"
    /\ UNCHANGED <<lines, single_line_entries, all_lines, multi_ran, harnessVars,
                   driverVars, fileVars, uploadVars>>

\* the harness keeps the outcome and calls parse_pdf on the same text again
CallAgain ==
    /\ caller = "twice"
    /\ pc \in {"returned", "raised"}
    /\ run = 1
    /\ first_result' = Outcome
    /\ run' = 2
    /\ pc' = "start"
    /\ UNCHANGED <<caller, call, ret, renderVars, lines, single_line_entries, entries,
                   all_lines, multi_ran, driverVars, fileVars, uploadVars>>

ParseNext ==
    \/ ParseStart
    \/ SingleLine
    \/ MultiLine
    \/ AdoptSingleLine
    \/ Window
    \/ PostProcessStep

Next == ParseNext \/ CallAgain

Spec == Init /\ [][Next]_vars

\* ------------------------------------------------------------ the driver
\* main is about to enter its loop over pdf_paths
InitDriver ==
    /\ InitCommon
    /\ call = NoCall
    /\ ret = NoReturn
    /\ caller = "main"
    /\ pc = "idle"
    /\ lines = <<>>
    /\ mode \in {"dry", "key", "none"}
    /\ idx = 1

\* the locals of parse_pdf, write_to_txt and upload_to_firestore are gone
\* once the calls have returned
ResetLocals ==
    /\ lines' = <<>>
    /\ single_line_entries' = <<>>
    /\ entries' = <<>>
    /\ all_lines' = <<>>
    /\ multi_ran' = FALSE
    /\ report' = EmptyReport
    /\ wpos' = 1
    /\ valid' = TRUE
    /\ u' = 1
    /\ existing' = Absent
    /\ uploaded_count' = 0
    /\ skipped_count' = 0
    /\ written' = {}
    /\ errors' = 0

\* continue / end of the loop body: on to the next element of pdf_paths
NextDocument ==
    /\ idx' = idx + 1
    /\ pc' = "idle"
    /\ ResetLocals

\* loop head: the next document is read and parse_pdf is called on it
ProcessNext ==
    /\ pc = "idle"
    /\ idx <= BatchSize
    /\ lines' \in DriverDocs
    /\ attempted' = Append(attempted, idx)
    /\ pc' = "start"
    /\ UNCHANGED <<single_line_entries, entries, all_lines, multi_ran, harnessVars,
                   mode, idx, failed, fileVars, uploadVars>>

\* write_to_txt: open(output_path, 'w') and the header lines
WriteOpen ==
    /\ pc = "write"
    /\ disk' = [disk EXCEPT ![idx] = [state |-> "partial", place |-> "out"]]
    /\ report' = EmptyReport
    /\ wpos' = 1
    /\ pc' = "writing"
    /\ UNCHANGED <<lines, single_line_entries, entries, all_lines, multi_ran, harnessVars,
                   driverVars, valid, uploadVars>>

\* write_to_txt: the block of one record
WriteEntry ==
    /\ pc = "writing"
    /\ wpos <= Len(entries)
    /\ report' = [report EXCEPT !.blocks = Append(@, Block(entries[wpos]))]
    /\ wpos' = wpos + 1
    /\ UNCHANGED <<lines, pc, single_line_entries, entries, all_lines, multi_ran,
                   harnessVars, driverVars, disk, valid, uploadVars>>

\* write_to_txt: the raw-lines appendix; the file is closed and parse_pdf returns
WriteClose ==
    /\ pc = "writing"
    /\ wpos > Len(entries)
    /\ report' = [report EXCEPT !.raw = all_lines]
    /\ disk' = [disk EXCEPT ![idx].state = "complete"]
    /\ pc' = "returned"
    /\ UNCHANGED <<lines, single_line_entries, entries, all_lines, multi_ran, harnessVars,
                   driverVars, wpos, valid, uploadVars>>

\* variant: a failed parse ends the loop
ParseRaisedAborts ==
    /\ caller = "main"
    /\ pc = "raised"
    /\ failed' = failed \cup {idx}
    /\ pc' = "done"
    /\ UNCHANGED <<lines, single_line_entries, entries, all_lines, multi_ran, harnessVars,
                   mode, idx, attempted, fileVars, uploadVars>>

\* except Exception around parse_pdf: "Failed to parse", continue
ParseRaised ==
    /\ caller = "main"
    /\ pc = "raised"
    /\ failed' = failed \cup {idx}
    /\ NextDocument
    /\ UNCHANGED <<harnessVars, mode, attempted, disk, store>>

\* len(coaches) == 0: continue
NoCoaches ==
    /\ caller = "main"
    /\ pc = "returned"
    /\ entries = <<>>
    /\ NextDocument
    /\ UNCHANGED <<harnessVars, mode, attempted, failed, disk, store>>

\* args.dry_run: upload_to_firestore(dry_run=True) prints and returns 0, 0
DryRun ==
    /\ caller = "main"
    /\ pc = "returned"
    /\ entries # <<>>
    /\ mode = "dry"
    /\ NextDocument
    /\ UNCHANGED <<harnessVars, mode, attempted, failed, disk, store>>

\* neither --dry-run nor --key: the results stay in the txt file only
NoKey ==
    /\ caller = "main"
    /\ pc = "returned"
    /\ entries # <<>>
    /\ mode = "none"
    /\ NextDocument
    /\ UNCHANGED <<harnessVars, mode, attempted, failed, disk, store>>

\* args.key: is_valid, _ = validate_txt_file(output_txt)
Validate ==
    /\ caller = "main"
    /\ pc = "returned"
    /\ entries # <<>>
    /\ mode = "key"
    /\ valid' = ValidateTxtFile(report.blocks)
    /\ pc' = "validated"
    /\ UNCHANGED <<lines, single_line_entries, entries, all_lines, multi_ran, harnessVars,
                   driverVars, disk, report, wpos, uploadVars>>

\* variant: the report is moved but the upload of the document goes on
MarkDamagedTxtNoContinue ==
    /\ pc = "validated"
    /\ ~valid
    /\ disk' = [disk EXCEPT ![idx].place = "damaged"]
    /\ pc' = "uinit"
    /\ UNCHANGED <<lines, single_line_entries, entries, all_lines, multi_ran, harnessVars,
                   driverVars, report, wpos, valid, uploadVars>>

\* not is_valid: mark_damaged_txt moves the report to damaged-pdfs, or leaves
\* it in place when os.replace raises; then continue
MarkDamagedTxt ==
    /\ pc = "validated"
    /\ ~valid
    /\ \E moved \in BOOLEAN :
          disk' = IF moved THEN [disk EXCEPT ![idx].place = "damaged"] ELSE disk
    /\ NextDocument
    /\ UNCHANGED <<harnessVars, mode, attempted, failed, store>>

\* is_valid: usernames and uploadable are rebuilt for records without e-mail
BuildUsernames ==
    /\ pc = "validated"
    /\ valid
    /\ entries' = [k \in DOMAIN entries |-> RebuildUsername(entries[k])]
    /\ pc' = "uinit"
    /\ UNCHANGED <<lines, single_line_entries, all_lines, multi_ran, harnessVars,
                   driverVars, fileVars, uploadVars>>

\* upload_to_firestore: the client is initialised, or the initialisation
\* raises and main's except Exception logs "Failed to upload" and continues
UploadInit ==
    /\ pc = "uinit"
    /\ \/ /\ uploaded_count' = 0
          /\ skipped_count' = 0
          /\ u' = 1
          /\ pc' = "upload"
          /\ UNCHANGED <<lines, single_line_entries, entries, all_lines, multi_ran,
                         harnessVars, driverVars, fileVars, existing, store, written,
                         errors>>
       \/ /\ failed' = failed \cup {idx}
          /\ NextDocument
          /\ UNCHANGED <<harnessVars, mode, attempted, disk, store>>

\* document id of the record the upload loop is at
CurrentKey == entries[u].username

\* e.get('uploadable') is False: continue
UploadSkipRecord ==
    /\ pc = "upload"
    /\ u <= Len(entries)
    /\ ~entries[u].uploadable
    /\ u' = u + 1
    /\ UNCHANGED <<parseVars, harnessVars, driverVars, fileVars, existing,
                   uploaded_count, skipped_count, store, written, errors>>

\* existing_coach = coach_ref.get(), or the call raises and the record is
\* given up with "Error processing"
UploadRead ==
    /\ pc = "upload"
    /\ u <= Len(entries)
    /\ entries[u].uploadable
    /\ \/ /\ existing' = store[CurrentKey]
          /\ pc' = "decide"
          /\ UNCHANGED <<u, errors>>
       \/ /\ errors' = errors + 1
          /\ u' = u + 1
          /\ UNCHANGED <<pc, existing>>
    /\ UNCHANGED <<lines, single_line_entries, entries, all_lines, multi_ran, harnessVars,
                   driverVars, fileVars, uploaded_count, skipped_count, store, written>>

\* the snapshot exists and isClaimed: skipped_count += 1, continue
UploadClaimedSkip ==
    /\ pc = "decide"
    /\ existing.exists /\ existing.data.isClaimed
    /\ skipped_count' = skipped_count + 1
    /\ u' = u + 1
    /\ existing' = Absent
    /\ pc' = "upload"
    /\ UNCHANGED <<lines, single_line_entries, entries, all_lines, multi_ran, harnessVars,
                   driverVars, fileVars, uploaded_count, store, written, errors>>

\* variant: the profile is written but the upload is not counted
UploadPutUncounted ==
    /\ pc = "decide"
    /\ ~(existing.exists /\ existing.data.isClaimed)
    /\ store' = [store EXCEPT ![CurrentKey] = Stored(CoachProfile(entries[u]))]
    /\ written' = written \cup {u}
    /\ u' = u + 1
    /\ existing' = Absent
    /\ pc' = "upload"
    /\ UNCHANGED <<lines, single_line_entries, entries, all_lines, multi_ran, harnessVars,
                   driverVars, fileVars, uploaded_count, skipped_count, errors>>

\* coach_ref.set(coach_profile) and uploaded_count += 1, or set raises and
\* the record is given up with "Error processing"
UploadPut ==
    /\ pc = "decide"
    /\ ~(existing.exists /\ existing.data.isClaimed)
    /\ \/ /\ store' = [store EXCEPT ![CurrentKey] = Stored(CoachProfile(entries[u]))]
          /\ uploaded_count' = uploaded_count + 1
          /\ written' = written \cup {u}
          /\ UNCHANGED errors
       \/ /\ errors' = errors + 1
          /\ UNCHANGED <<store, uploaded_count, written>>
    /\ u' = u + 1
    /\ existing' = Absent
    /\ pc' = "upload"
    /\ UNCHANGED <<lines, single_line_entries, entries, all_lines, multi_ran, harnessVars,
                   driverVars, fileVars, skipped_count>>

\* the loop is over: the summary is printed and main goes to the next document
UploadDone ==
    /\ pc = "upload"
    /\ u > Len(entries)
    /\ NextDocument
    /\ UNCHANGED <<harnessVars, mode, attempted, failed, disk, store>>

\* a coach claims an unclaimed profile of the store while an upload is under way
ClaimProfile ==
    /\ pc \in {"upload", "decide"}
    /\ \E k \in StoreKeys :
          /\ store[k].exists
          /\ ~store[k].data.isClaimed
          /\ store' = [store EXCEPT ![k].data.isClaimed = TRUE]
    /\ UNCHANGED <<parseVars, harnessVars, driverVars, fileVars, u, existing,
                   uploaded_count, skipped_count, written, errors>>

\* KeyboardInterrupt is no Exception: no handler of main catches it, the
\* process ends where it is
Interrupt ==
    /\ caller = "main"
    /\ pc \notin {"done", "interrupted"}
    /\ pc' = "interrupted"
    /\ ResetLocals
    /\ UNCHANGED <<harnessVars, driverVars, disk, store>>

\* the loop is exhausted: "=== DONE ==="
Finish ==
    /\ pc = "idle"
    /\ idx > BatchSize
    /\ pc' = "done"
    /\ UNCHANGED <<lines, single_line_entries, entries, all_lines, multi_ran, harnessVars,
                   driverVars, fileVars, uploadVars>>

DriverNext ==
    \/ ProcessNext
    \/ ParseNext
    \/ WriteOpen
    \/ WriteEntry
    \/ WriteClose
    \/ ParseRaised
    \/ NoCoaches
    \/ DryRun
    \/ NoKey
    \/ Validate
    \/ MarkDamagedTxt
    \/ BuildUsernames
    \/ UploadInit
    \/ UploadSkipRecord
    \/ UploadRead
    \/ UploadClaimedSkip
    \/ UploadPut
    \/ UploadDone
    \/ ClaimProfile
    \/ Interrupt
    \/ Finish

SpecDriver == InitDriver /\ [][DriverNext]_vars

\* ================================================ helpers called on their own
\* a helper is called once on arguments drawn from a bounded family, and its
\* return value is kept in ret
Return(value) ==
    /\ ret = NoReturn
    /\ ret' = [returned |-> TRUE, value |-> value]
    /\ UNCHANGED <<caller, run, first_result, call, renderVars, parseVars, driverVars,
                   fileVars, uploadVars>>

\* ----------------------------------------- write_to_txt, validate_txt_file
\* records handed to write_to_txt: name and title empty or filled, the
\* original line plain, a "Coaching Staff" line or a line that starts with
\* "Coaches"; a record with an e-mail has a username, and a record that is
\* not uploadable has neither
ValidateCalls(maxBlocks) ==
    LET ReportNames == {<<<<>>, <<>>>>, <<<<"John">>, <<"Doe">>>>}
        ReportOriginals ==
            {<<NameFrag, TitleFrag>>, <<StaffFrag, NameFrag>>, <<CoachesFrag, NameFrag>>}
        ReportContacts ==
            {<<"", <<>>, FALSE>>, <<"", <<>>, TRUE>>, <<"", <<"jdoe">>, TRUE>>,
             <<PlainEmail, <<"jdoe">>, TRUE>>}
        ReportEntries ==
            {Entry(n[1], n[2], c[1], c[2], fl, ti, NoSection, c[3]) :
                n \in ReportNames, c \in ReportContacts, fl \in ReportOriginals,
                ti \in {<<>>, <<"Head", "Coach">>}}
    IN  {[fn |-> "validate_txt_file", entries |-> es] :
            es \in UNION {[1..n -> ReportEntries] : n \in 0..maxBlocks}}

\* write_to_txt(entries, ...) followed by validate_txt_file(output_path)
WriteAndValidate ==
    /\ call.fn = "validate_txt_file"
    /\ \E blocks \in {[k \in DOMAIN call.entries |-> Block(call.entries[k])]} :
          Return([is_valid |-> ValidateTxtFile(blocks), issues |-> IssueCount(blocks)])

\* ------------------------------------------------ extract_and_format_phone
\* a line is a run of pieces: one example of each shape, a blank, a letter
\* and a digit that lengthens a run of digits
RECURSIVE Concat(_)
Concat(ps) == IF ps = <<>> THEN <<>> ELSE Head(ps) \o Concat(Tail(ps))

PhoneCalls(maxPieces) ==
    LET PhonePieces ==
            {<<"(", "8", "5", "6", ")", " ", "2", "5", "6", "-", "4", "6", "8", "7">>,
             <<"(", "8", "5", "6", ")", "2", "5", "6", ".", "4", "6", "8", "7">>,
             <<"8", "5", "6", "-", "2", "5", "6", "-", "4", "6", "8", "7">>,
             <<"8", "5", "6", ".", "2", "5", "6", ".", "4", "6", "8", "7">>,
             <<"8", "5", "6", " ", "2", "5", "6", "-", "4", "6", "8", "7">>,
             <<"2", "5", "6", "-", "4", "6", "8", "7">>,
             <<"2", "5", "6", ".", "4", "6", "8", "7">>,
             <<"2", "5", "6", "4", "6", "8", "7">>,
             <<" ">>,
             <<"x">>,
             <<"1">>}
        PhoneLines ==
            {Concat(ps) : ps \in UNION {[1..n -> PhonePieces] : n \in 0..maxPieces}}
    IN  {[fn |-> "extract_and_format_phone", line |-> l, area_code |-> a] :
            l \in PhoneLines, a \in {NoArea, <<"6", "0", "9">>}}

\* extract_and_format_phone(line, area_code)
CallExtractAndFormatPhone ==
    /\ call.fn = "extract_and_format_phone"
    /\ Return(ExtractAndFormatPhone(call.line, call.area_code))

\* --------------------------------------------------------- normalize_title
\* title candidates as the passes hand them over (stripped, possibly empty),
\* and context texts: the lines of the line family
NormalizeCalls ==
    {[fn |-> "normalize_title", title |-> t, context |-> c] :
        t \in {<<>>, <<"Head", "Coach">>, <<"Coach">>, <<"SOCCER", "COACHES">>,
               <<"Coaching", "Staff">>, <<"John", "Doe">>, <<"Director">>, <<"Head">>},
        c \in LineTexts}

\* normalize_title(title_candidate, context_text)
CallNormalizeTitle ==
    /\ call.fn = "normalize_title"
    /\ Return(NormalizeTitle(call.title, call.context))

\* ------------------------------------------------- surname-leak correction
\* normalized titles, most of them "<Word> Coach ..."; the username and the
\* e-mail-derived names are those of the e-mail of the record
LeakCalls ==
    {[fn |-> "surname_leak", pass |-> p, title |-> t, email |-> e] :
        p \in {"single", "window"},
        t \in {<<"Doe", "Coach">>, <<"Jdoe", "Coach">>, <<"John", "Coach">>,
               <<"Head", "Coach">>, <<"Director", "Coach">>, <<"Doe", "Coach", "SOCCER">>,
               <<"Coach">>, <<"Coach", "Doe">>, <<"Doe", "Coaches">>, <<"Doe">>},
        e \in {PlainEmail, RoleEmail}}

\* lines 556-567 of the single-line pass
CallSurnameLeakSingle ==
    /\ call.fn = "surname_leak"
    /\ call.pass = "single"
    /\ Return(StripSurnameSingle(call.title, LocalPart(call.email),
                                 DeriveNameFromEmail(call.email)))

\* lines 740-744 of the window pass
CallSurnameLeakWindow ==
    /\ call.fn = "surname_leak"
    /\ call.pass = "window"
    /\ Return(StripSurnameWindow(call.title, LocalPart(call.email)))

\* ------------------------------- clean_name_tokens, split_name_and_title
\* tokens of a name text: names in two spellings, role words, a year, an
\* initial, an address
StrengthSegment == <<"Strength", "Conditioning", "John", "Doe">>

\* the segments are those the passes hand to the disambiguator
NameCalls(maxTokens) ==
    LET NameWords ==
            {"John", "JOHN", "Doe", "Strength", "Conditioning", "Coach", "2025", "J",
             PlainEmail}
    IN  {[fn |-> "clean_name_tokens", text |-> t] :
            t \in UNION {[1..n -> NameWords] : n \in 0..maxTokens} \cup {StrengthSegment}}
        \cup {[fn |-> "split_name_and_title", text |-> t] :
                 t \in {StrengthSegment,
                        <<"Strength", "Conditioning", "Coach", "John", "Doe">>,
                        <<NameFrag>>, <<NameFrag, TitleFrag>>, <<TitleFrag, NameFrag>>,
                        <<TitleFrag>>}}

\* clean_name_tokens(name_text)
CallCleanNameTokens ==
    /\ call.fn = "clean_name_tokens"
    /\ Return(CleanNameTokens(call.text))

\* split_name_and_title(pre_email_text)
CallSplitNameAndTitle ==
    /\ call.fn = "split_name_and_title"
    /\ Return(SplitNameAndTitle(call.text))

\* -------------------------------------------------- derive_name_from_email
\* local parts over letters of both cases and the separators, with a domain
\* or without "@"
EmailCalls(maxLocal) ==
    LET LocalParts ==
            UNION {[1..n -> {"a", "b", "A", "B", ".", "_", "-"}] : n \in 0..maxLocal}
    IN  {[fn |-> "derive_name_from_email", email |-> l \o d] :
            l \in LocalParts, d \in {<<>>, <<"@", "x">>}}

\* derive_name_from_email(email)
CallDeriveNameFromEmail ==
    /\ call.fn = "derive_name_from_email"
    /\ Return(DeriveNameFromEmailChars(call.email))

\* ------------------------------------------------ the window e-mail search
\* short texts of blank lines, e-mail lines and title lines, and texts with
\* an e-mail line on either side of a title line at the distances of Gaps
\* the search is made for the lines that hold "coach" and no e-mail
WindowCalls(maxLines) ==
    LET WindowTexts ==
            UNION {[1..n -> {<<>>, <<PlainEmail>>, <<RoleEmail>>, <<TitleFrag>>}] :
                      n \in 1..maxLines}
            \cup {<<<<PlainEmail>>>> \o Blanks(g) \o <<<<TitleFrag>>>> \o Blanks(h)
                     \o <<<<RoleEmail>>>> : g \in Gaps, h \in Gaps}
    IN  UNION {{[fn |-> "window_email", lines |-> t, i |-> i] :
                   i \in {j \in DOMAIN t : HasCoach(t[j]) /\ EmailOf(t[j]) = ""}} :
               t \in WindowTexts}

\* lines 694-708, for a line i that holds "coach" and no e-mail
CallWindowEmail ==
    /\ call.fn = "window_email"
    /\ call.i \in DOMAIN call.lines
    /\ HasCoach(call.lines[call.i])
    /\ EmailOf(call.lines[call.i]) = ""
    /\ Return(WindowEmailLine(call.lines, call.i))

\* ---------------------------------------------------- map_to_coach_profile
\* section labels as the header test of parse_pdf lets them through: upper
\* case words, possibly a parenthetical, holding one of its sport keywords;
\* provenance lines without and with sport keywords; pdf_info as
\* detect_pdf_info fills it for a file name, or with no university found
MapCalls(maxWords) ==
    LET LabelWords ==
            {Spell("MEN"), Spell("WOMEN"), Spell("BASKETBALL"), Spell("SOCCER"),
             Spell("FIELD HOCKEY"), Spell("TRACK"), Spell("LACROSSE")}
        Join(ws) == Concat([i \in DOMAIN ws |-> IF i = 1 THEN ws[i] ELSE <<" ">> \o ws[i]])
        Labels ==
            {Join(ws) : ws \in UNION {[1..n -> LabelWords] : n \in 1..maxWords}}
            \cup {Spell("BASKETBALL") \o <<" ">> \o Spell("(WOMEN)")}
        Headers ==
            {l \in Labels :
                \E sport \in {"baseball", "basketball", "soccer", "football", "swimming",
                               "volleyball", "lacrosse", "track", "field hockey",
                               "cross country", "softball"} :
                   Contains(LowerText(l), Spell(sport))}
        Infos ==
            {[university |-> Spell(i[1]), source |-> Spell(i[2])] :
                i \in
                    {<<"Bryant", "Bryant University Men's Soccer Coaches Directory">>,
                     <<"Rowan", "Rowan University Athletics Staff Directory">>,
                     <<"Rutgers", "Rutgers University Athletics Staff Directory">>,
                     <<"", "">>}}
    IN  {[fn |-> "map_to_coach_profile", section |-> sec, full_line |-> Spell(fl),
          pdf_info |-> info] :
            sec \in {NoSection} \cup Headers,
            fl \in {"Head Coach", "Soccer Coach", "Strength Conditioning Coach",
                    "Field Hockey Coach"},
            info \in Infos}

\* map_to_coach_profile(entry, pdf_info)['sports']
\* the lines that may stand right above a title line
NameLineCalls ==
    {[fn |-> "name_candidate", line |-> Spell(l)] :
        l \in {"John Doe", "John Doe 2024", "John Doe 2025", "John Doe 3", "John/Jane Doe",
               "Adam Fox", "John", "jdoe@x.edu John", "Coaching Staff", "Director of Sports",
               "Rowan University", "John Doe 7pm"}}

\* potential_name_line is taken as coach_name or not
CallNameCandidate ==
    /\ call.fn = "name_candidate"
    /\ Return(IsNameCandidateText(call.line))

\* single tokens of a name text
TokenCalls ==
    {[fn |-> "clean_name_token", token |-> Spell(w)] :
        w \in {"Doe", "Headley", "Coachman", "Smith-Jones", "Smith-Men", "Men", "HEAD", "J",
               "O'Neil", "Doe2", "a@b", "Doe,", "(Doe)", "Doe/Men",
               "Recruiting", "-", "Coach-Men's"}}

\* clean_name_tokens(name_text) for a text of one token
CallCleanNameToken ==
    /\ call.fn = "clean_name_token"
    /\ Return(CleanNameToken(call.token))

CallMapToCoachProfile ==
    /\ call.fn = "map_to_coach_profile"
    /\ Return(MapSports(call.section, call.full_line, call.pdf_info))

HelperNext ==
    \/ WriteAndValidate
    \/ CallExtractAndFormatPhone
    \/ CallNormalizeTitle
    \/ CallSurnameLeakSingle
    \/ CallSurnameLeakWindow
    \/ CallCleanNameTokens
    \/ CallSplitNameAndTitle
    \/ CallDeriveNameFromEmail
    \/ CallWindowEmail
    \/ CallMapToCoachProfile
    \/ CallNameCandidate
    \/ CallCleanNameToken

\* the helper called and its arguments
InitHelper ==
    /\ InitCommon
    /\ caller = "helper"
    /\ pc = "idle"
    /\ lines = <<>>
    /\ mode = "none"
    /\ idx = 1
    /\ ret = NoReturn
    /\ \/ call \in ValidateCalls(MaxBlocks)
       \/ call \in PhoneCalls(MaxPieces)
       \/ call \in NormalizeCalls
       \/ call \in LeakCalls
       \/ call \in NameCalls(MaxTokens)
       \/ call \in EmailCalls(MaxLocal)
       \/ call \in WindowCalls(MaxWindowLines)
       \/ call \in MapCalls(MaxLabelWords)
       \/ call \in NameLineCalls
       \/ call \in TokenCalls

SpecHelper == InitHelper /\ [][HelperNext]_vars

\* ===================================================== the rendering stage
\* run_all (print-pdfs.py) and print_all_from_csv (print-and-upload-from-csv.py)
\* start one worker per task; a worker renders inside `async with sem`
RenderCalls(maxTasks, maxConcurrency) ==
    {[fn |-> f, concurrency |-> c, tasks |-> n] :
        f \in {"run_all", "print_all_from_csv"}, c \in 1..maxConcurrency, n \in 0..maxTasks}

\* variant: a worker starts to render without looking at the semaphore
WorkerAcquireUnguarded(t) ==
    /\ ret = NoReturn
    /\ workers[t] = "waiting"
    /\ sem' = sem - 1
    /\ workers' = [workers EXCEPT ![t] = "rendering"]
    /\ UNCHANGED <<caller, run, first_result, call, ret, finished, results, parseVars,
                   driverVars, fileVars, uploadVars>>

\* async with sem: the worker of task t gets the semaphore and calls render_pdf
WorkerAcquire(t) ==
    /\ ret = NoReturn
    /\ workers[t] = "waiting"
    /\ sem > 0
    /\ sem' = sem - 1
    /\ workers' = [workers EXCEPT ![t] = "rendering"]
    /\ UNCHANGED <<caller, run, first_result, call, ret, finished, results, parseVars,
                   driverVars, fileVars, uploadVars>>

\* render_pdf returns its info (status ok or error) or raises; the worker
\* leaves `async with sem`, which releases the semaphore either way
WorkerRelease(t) ==
    /\ ret = NoReturn
    /\ workers[t] = "rendering"
    /\ sem' = sem + 1
    /\ workers' = [workers EXCEPT ![t] = "finished"]
    /\ \E status \in {"ok", "error", "raised"} :
          finished' = Append(finished, [task |-> t, status |-> status])
    /\ UNCHANGED <<caller, run, first_result, call, ret, results, parseVars, driverVars,
                   fileVars, uploadVars>>

\* res = await f; results.append(res), for the next completed worker
CollectResult ==
    /\ ret = NoReturn
    /\ finished # <<>>
    /\ Head(finished).status # "raised"
    /\ results' = Append(results, Head(finished))
    /\ finished' = Tail(finished)
    /\ UNCHANGED <<caller, run, first_result, call, ret, sem, workers, parseVars,
                   driverVars, fileVars, uploadVars>>

\* await f raises what the worker raised: the stage ends with the exception
\* and the event loop is closed, no worker goes on
CollectRaises ==
    /\ finished # <<>>
    /\ Head(finished).status = "raised"
    /\ Return(Raised)

\* every worker has been collected: await browser.close(), return results
CloseBrowser ==
    /\ call.fn \in {"run_all", "print_all_from_csv"}
    /\ Len(results) = call.tasks
    /\ Return(results)

RenderNext ==
    \/ \E t \in DOMAIN workers : WorkerAcquire(t)
    \/ \E t \in DOMAIN workers : WorkerRelease(t)
    \/ CollectResult
    \/ CollectRaises
    \/ CloseBrowser

\* sem = asyncio.Semaphore(concurrency) and the workers have been made
InitRender ==
    /\ single_line_entries = <<>>
    /\ entries = <<>>
    /\ all_lines = <<>>
    /\ multi_ran = FALSE
    /\ run = 1
    /\ first_result = [ok |-> FALSE, records |-> {<<>>}]
    /\ attempted = <<>>
    /\ failed = {}
    /\ disk = [k \in 1..BatchSize |-> [state |-> "absent", place |-> "out"]]
    /\ report = EmptyReport
    /\ wpos = 1
    /\ valid = TRUE
    /\ u = 1
    /\ existing = Absent
    /\ uploaded_count = 0
    /\ skipped_count = 0
    /\ store = [k \in StoreKeys |-> Absent]
    /\ written = {}
    /\ errors = 0
    /\ caller = "render"
    /\ pc = "idle"
    /\ lines = <<>>
    /\ mode = "none"
    /\ idx = 1
    /\ ret = NoReturn
    /\ call \in RenderCalls(MaxTasks, MaxConcurrency)
    /\ sem = call.concurrency
    /\ workers = [t \in 1..call.tasks |-> "waiting"]
    /\ finished = <<>>
    /\ results = <<>>

SpecRender == InitRender /\ [][RenderNext]_vars

\* ============================================================ properties
Records == {entries[k] : k \in DOMAIN entries}
CoachLines == {i \in DOMAIN lines : HasCoach(lines[i])}
EmailLines == {i \in DOMAIN lines : EmailOf(lines[i]) # ""}

\* C1: the list parse_pdf returns holds no two records with the same
\* non-empty e-mail.
C1_NoEmailTwice ==
    pc = "returned" =>
        \A i, j \in DOMAIN entries :
            (i # j /\ entries[i].email # "") => entries[i].email # entries[j].email

\* C2 as stated: a returned record is non-uploadable only if it has no
\* e-mail and build_username_from_name of its two names is empty.
C2_FalseOnlyIfNoUsername ==
    pc = "returned" =>
        \A e \in Records :
            ~e.uploadable =>
                e.email = "" /\ BuildUsernameFromName(e.first_name, e.last_name) = <<>>

\* C2 amended: a returned record is non-uploadable only if it has no e-mail
\* and either no username can be built from its names or it is header-like.
C2_FalseOnlyIfNoUsernameOrHeader ==
    pc = "returned" =>
        \A e \in Records :
            ~e.uploadable =>
                /\ e.email = ""
                /\ \/ BuildUsernameFromName(e.first_name, e.last_name) = <<>>
                   \/ IsHeaderLike(e)

C2_Witness ==
    /\ pc = "returned"
    /\ \E e \in Records : ~e.uploadable /\ e.first_name # <<>>
    /\ \E e \in Records : e.uploadable /\ e.email = ""

\* C8 as stated: when some line holds both an e-mail and "coach", the
\* multi-line loop is never entered.
C8_NeverWithEmailCoachLine ==
    (\E i \in DOMAIN lines : EmailOf(lines[i]) # "" /\ HasCoach(lines[i])) => ~multi_ran

\* C8 amended: the multi-line loop is entered only when the single-line pass
\* emitted nothing, and never when some line that is not a sport-section
\* header holds both an e-mail and "coach"; the records are then those of
\* the single-line pass.
C8_NeverWithRecordLine ==
    /\ multi_ran => single_line_entries = <<>>
    /\ (\E i \in DOMAIN lines :
            ~IsSportHeader(lines[i]) /\ EmailOf(lines[i]) # "" /\ HasCoach(lines[i]))
       => /\ ~multi_ran
          /\ pc = "window" => entries = single_line_entries

C8_Witness ==
    /\ pc = "returned"
    /\ \E i \in DOMAIN lines :
          ~IsSportHeader(lines[i]) /\ EmailOf(lines[i]) # "" /\ HasCoach(lines[i])
    /\ ~multi_ran
    /\ entries # <<>>

\* the only "coach" line lies more than 3 and at most 8 lines from the only
\* e-mail line, which holds no "coach"
FarEmailDocument ==
    /\ Cardinality(CoachLines) = 1
    /\ Cardinality(EmailLines) = 1
    /\ \E i \in CoachLines, j \in EmailLines :
          /\ ~HasCoach(lines[j])
          /\ (i - j > LookBack \/ j - i > LookBack)
          /\ i - j <= WindowRadius /\ j - i <= WindowRadius

\* C9: such a document gives exactly one record; it carries the e-mail and
\* is uploadable.
C9_OneRecordWithEmail ==
    (FarEmailDocument /\ pc \in {"returned", "raised"}) =>
        /\ pc = "returned"
        /\ Len(entries) = 1
        /\ \A j \in EmailLines : entries[1].email = EmailOf(lines[j])
        /\ entries[1].uploadable

\* C10: a second call of parse_pdf on the same text ends as the first did,
\* with the same set of records, field for field.
C10_SameOutcomeTwice ==
    (run = 2 /\ pc \in {"returned", "raised"}) => Outcome = first_result

C10_Witness ==
    /\ run = 2
    /\ pc = "returned"
    /\ multi_ran
    /\ Len(entries) >= 2

\* the record the upload loop is at was found claimed when it was read
ClaimedAtRead == pc = "decide" /\ existing.exists /\ existing.data.isClaimed

\* the upload loop leaves its current, uploadable record behind in this step
RecordDealtWith ==
    /\ caller = "main"
    /\ pc \in {"upload", "decide"}
    /\ u <= Len(entries)
    /\ entries[u].uploadable
    /\ u' = u + 1

\* C3: in upload mode no record whose block of the report carries the
\* non-uploadable marker is written to the store for that document.
C3_MarkedNeverWritten ==
    mode = "key" => \A k \in written : ~report.blocks[k].marker

\* C4 as stated: an uploadable record found claimed when read leaves the
\* store unchanged and counts one skip; any other uploadable record is
\* written under its username and counts one upload.
C4_SkipElseWrite ==
    [][RecordDealtWith =>
          IF ClaimedAtRead
          THEN /\ store' = store
               /\ skipped_count' = skipped_count + 1
               /\ uploaded_count' = uploaded_count
          ELSE /\ store' = [store EXCEPT ![CurrentKey] = Stored(CoachProfile(entries[u]))]
               /\ uploaded_count' = uploaded_count + 1
               /\ skipped_count' = skipped_count]_vars

\* C4 amended: an uploadable record found claimed when read leaves the store
\* unchanged and counts one skip; when reading or writing raises, the error
\* is logged, the store and both counters stay as they are and the loop goes
\* on; any other uploadable record is written under its username and counts
\* one upload.
C4_SkipWriteOrError ==
    [][RecordDealtWith =>
          \/ /\ ClaimedAtRead
             /\ store' = store
             /\ skipped_count' = skipped_count + 1
             /\ uploaded_count' = uploaded_count
             /\ errors' = errors
          \/ /\ ~ClaimedAtRead
             /\ pc = "decide"
             /\ store' = [store EXCEPT ![CurrentKey] = Stored(CoachProfile(entries[u]))]
             /\ uploaded_count' = uploaded_count + 1
             /\ skipped_count' = skipped_count
             /\ errors' = errors
          \/ /\ ~ClaimedAtRead
             /\ errors' = errors + 1
             /\ store' = store
             /\ uploaded_count' = uploaded_count
             /\ skipped_count' = skipped_count
             /\ pc' = "upload"]_vars

C4_Witness ==
    /\ pc = "upload"
    /\ uploaded_count = 1
    /\ skipped_count = 1
    /\ \E k \in StoreKeys : store[k].exists /\ store[k].data.isClaimed

\* C5: the documents of the batch are attempted one after the other, each
\* once, and when the run is done every one of them has been attempted,
\* whichever of them failed to parse or to upload.
C5_EachAttemptedOnce ==
    /\ attempted = [k \in 1..Len(attempted) |-> k]
    /\ Len(attempted) <= BatchSize
    /\ failed \subseteq {attempted[k] : k \in DOMAIN attempted}
    /\ pc = "done" => Len(attempted) = BatchSize

C5_Witness ==
    /\ pc = "done"
    /\ 1 \in failed
    /\ Len(attempted) = BatchSize

\* a step of main itself from the point where validation has failed
AfterFailedValidation ==
    /\ pc = "validated"
    /\ ~valid
    /\ pc' \notin {pc, "interrupted"}

\* C6 as stated: when validation of the report fails in upload mode, the
\* report is moved to the quarantine directory, nothing of the document is
\* written to the store and main goes on to the next document.
C6_MovedAndSkipped ==
    [][AfterFailedValidation =>
          /\ disk'[idx] = [state |-> "complete", place |-> "damaged"]
          /\ store' = store
          /\ idx' = idx + 1
          /\ pc' = "idle"]_vars

\* C6 amended: when validation of the report fails in upload mode, the
\* report is moved to the quarantine directory, or left where it is when the
\* move fails; in both cases nothing of the document is written to the store,
\* no upload is started for it, and main goes on to the next document.
C6_MovedOrLeftAndSkipped ==
    [][/\ AfterFailedValidation =>
             /\ disk'[idx].state = "complete"
             /\ disk'[idx].place \in {"damaged", "out"}
             /\ store' = store
             /\ idx' = idx + 1
             /\ pc' = "idle"
       /\ written' # written => valid
       /\ pc' \in {"uinit", "upload", "decide"} => valid']_vars

C6_Witness ==
    /\ pc = "idle"
    /\ idx = 2
    /\ disk[1] = [state |-> "complete", place |-> "damaged"]
    /\ \A k \in StoreKeys : ~store[k].exists

\* C7: once an interrupt has stopped the run, every report file either does
\* not exist or is complete.
C7_NoPartialReport ==
    pc = "interrupted" => \A k \in DOMAIN disk : disk[k].state \in {"absent", "complete"}

\* ---------------------------------------------------------------- C11
\* C11: for a report written by write_to_txt, validate_txt_file fails iff
\* some block without the non-uploadable marker that is not header-like
\* ("coaching staff" in its provenance line, or "coaches" at its start) has
\* an empty name, username or title (an empty e-mail never fails a block),
\* and the issue count returned is the number of such blocks.
C11_FailsIffBlockIncomplete ==
    LET blocks == [k \in DOMAIN call.entries |-> Block(call.entries[k])]
        failing ==
            {k \in DOMAIN blocks :
                /\ ~blocks[k].marker
                /\ ~HasCoachingStaff(blocks[k].original)
                /\ ~StartsWithCoaches(blocks[k].original)
                /\ \/ blocks[k].name = <<>>
                   \/ blocks[k].username = <<>>
                   \/ blocks[k].title = <<>>}
    IN  (call.fn = "validate_txt_file" /\ ret.returned) =>
            /\ ret.value.is_valid = (failing = {})
            /\ ret.value.issues = Cardinality(failing)

\* ---------------------------------------------------------- C12, C13
\* the shapes in the order of their priority
ShapesByPriority ==
    <<Shape("ParenDashed"), Shape("ParenDotted"), Shape("Dashed10"), Shape("Dotted10"),
      Shape("SpaceDash10"), Shape("Dashed7"), Shape("Dotted7"), Shape("Bare7")>>

\* the texts of the line that the shape matches, wherever they stand
MatchesOf(t, shape) ==
    {SubSeq(t, i, MatchFrom(t, i, shape, 1) - 1) :
        i \in {j \in 1..(Len(t) + 1) : MatchFrom(t, j, shape, 1) # 0}}

\* the highest-priority shape that matches anywhere in the line, 0 if none does
MatchedShape ==
    IF \A k \in DOMAIN ShapesByPriority : MatchesOf(call.line, ShapesByPriority[k]) = {}
    THEN 0
    ELSE CHOOSE k \in DOMAIN ShapesByPriority :
            /\ MatchesOf(call.line, ShapesByPriority[k]) # {}
            /\ \A j \in 1..(k - 1) : MatchesOf(call.line, ShapesByPriority[j]) = {}

DigitsOf(t) == SelectSeq(t, LAMBDA c : c \in Digits)

\* C12: when the shape matched is a 7-digit one (dashed, dotted or bare) and
\* an area code AAA is available, the result has exactly the form
\* (AAA) NNN-NNNN.
C12_SevenDigitsGetAreaCode ==
    (/\ call.fn = "extract_and_format_phone"
     /\ ret.returned
     /\ call.area_code # NoArea
     /\ MatchedShape \in {6, 7, 8}) =>
        /\ FullMatch(ret.value,
                     <<"(", "d", "d", "d", ")", " ", "d", "d", "d", "-", "d", "d", "d", "d">>)
        /\ SubSeq(ret.value, 2, 4) = call.area_code

\* C13: the answer is for the highest-priority shape that matches anywhere in
\* the line, whatever lower-priority shapes the line holds; it is none iff no
\* shape matches; a parenthesized match and a dotted 10-digit match are
\* returned unchanged, with or without an area code.
C13_HighestPriorityShapeAnswers ==
    (call.fn = "extract_and_format_phone" /\ ret.returned) =>
        /\ (ret.value = NoPhone) <=> (MatchedShape = 0)
        /\ MatchedShape # 0 =>
              \E m \in MatchesOf(call.line, ShapesByPriority[MatchedShape]) :
                 /\ DigitsOf(ret.value) \in {DigitsOf(m), call.area_code \o DigitsOf(m)}
                 /\ MatchedShape \in {1, 2, 4} => ret.value = m

\* a dotted 10-digit number answered for a line that also holds a dashed
\* 7-digit number, an area code being available
C13_Witness ==
    /\ call.fn = "extract_and_format_phone"
    /\ ret.returned
    /\ call.area_code # NoArea
    /\ MatchedShape = 4
    /\ MatchesOf(call.line, Shape("Dashed7")) # {}
    /\ ret.value \in MatchesOf(call.line, Shape("Dotted10"))

\* ---------------------------------------------------------------- C14
\* "coach" stands somewhere in the text, in any case
HoldsCoach(ws) == \E i \in DOMAIN ws : ContainsSub(Lower(ws[i]), "coach")

\* the standalone word "head" stands in the context
HoldsHeadWord(context) ==
    \E i \in DOMAIN FlatWords(context) : Lower(FlatWords(context)[i]) = "head"

\* C14: normalize_title returns the candidate as it is when it contains "coach"
\* in any case; otherwise "Head Coach" when the context holds the standalone
\* word "head"; otherwise "Assistant Coach". The result is never empty and
\* always contains "coach".
C14_NormalizedTitle ==
    (call.fn = "normalize_title" /\ ret.returned) =>
        /\ HoldsCoach(call.title) => ret.value = call.title
        /\ (~HoldsCoach(call.title) /\ HoldsHeadWord(call.context)) =>
              ret.value = <<"Head", "Coach">>
        /\ (~HoldsCoach(call.title) /\ ~HoldsHeadWord(call.context)) =>
              ret.value = <<"Assistant", "Coach">>
        /\ ret.value # <<>>
        /\ HoldsCoach(ret.value)

\* a candidate with "coach" in upper case is kept although the context says "head"
C14_Witness ==
    /\ call.fn = "normalize_title"
    /\ ret.returned
    /\ call.title = <<"SOCCER", "COACHES">>
    /\ HoldsHeadWord(call.context)
    /\ ret.value = call.title

\* ---------------------------------------------------------------- C15
\* C15: when a normalized title starts with "<Word> Coach" and <Word>, in any
\* case, is a substring of the username or equals a name derived from the
\* e-mail, <Word> is removed and the title starts with "Coach"; when <Word>
\* matches none of these, the rule leaves the title as it is.
C15_SurnameLeakRemoved ==
    LET word == Lower(call.title[1])
        derived == DeriveNameFromEmail(call.email)
        tokens ==
            {Lower(derived.first[k]) : k \in DOMAIN derived.first}
            \cup {Lower(derived.last[k]) : k \in DOMAIN derived.last}
        matches == ContainsSub(LocalPart(call.email), word) \/ word \in tokens
    IN  (call.fn = "surname_leak" /\ ret.returned /\ WordThenCoach(call.title)) =>
            /\ matches =>
                  /\ ret.value = <<"Coach">> \o SubSeq(call.title, 3, Len(call.title))
                  /\ Head(ret.value) = "Coach"
            /\ ~matches => ret.value = call.title

\* "Doe Coach" with the username jdoe became "Coach" in the window pass
C15_Witness ==
    /\ call.fn = "surname_leak"
    /\ call.pass = "window"
    /\ ret.returned
    /\ call.title = <<"Doe", "Coach">>
    /\ call.email = PlainEmail
    /\ ret.value = <<"Coach">>

\* ---------------------------------------------------------------- C16
\* C16: name token sanitation returns as first name the first surviving token
\* and as last name the last surviving token whose lower-case form differs
\* from the first's (empty if there is none), no stopword being returned; for
\* the segment "Strength Conditioning John Doe" the disambiguator gives first
\* name John and last name Doe.
C16_FirstAndLastSurvivor ==
    LET surviving == SelectSeq(FlatWords(call.text), KeepsNameToken)
        later == SelectSeq(Tail(surviving), LAMBDA w : Lower(w) # Lower(surviving[1]))
    IN  /\ (call.fn = "clean_name_tokens" /\ ret.returned) =>
              /\ ret.value[1] = (IF surviving = <<>> THEN <<>> ELSE <<surviving[1]>>)
              /\ ret.value[2] = (IF surviving = <<>> \/ later = <<>> THEN <<>>
                                 ELSE <<later[Len(later)]>>)
              /\ \A k \in 1..2 : \A i \in DOMAIN ret.value[k] :
                    Lower(ret.value[k][i]) \notin StopWords
        /\ (call.fn = "split_name_and_title" /\ ret.returned
            /\ call.text = StrengthSegment) =>
              /\ ret.value[1] = <<"John">>
              /\ ret.value[2] = <<"Doe">>

\* ---------------------------------------------------------------- C17
\* the non-empty parts of the local part of the address
PartsOfLocal == SplitParts(BeforeAt(call.email), <<>>)
HasAt == \E i \in DOMAIN call.email : call.email[i] = "@"

\* the places where a single part splits into two capitalized words
CamelSplits ==
    {k \in 1..Len(PartsOfLocal[1]) :
        /\ IsCapWord(SubSeq(PartsOfLocal[1], 1, k))
        /\ IsCapWord(SubSeq(PartsOfLocal[1], k + 1, Len(PartsOfLocal[1])))}

\* C17: derive_name_from_email splits the local part on ".", "_" and "-"; with
\* two or more non-empty parts and a one-character first part it returns
\* (that character in upper case, the second part capitalized); with two or
\* more parts otherwise (first part capitalized, second part capitalized);
\* with one part, its camel-case split into two words if there is one, else
\* (the capitalized part, empty).
C17_NameFromLocalPart ==
    (call.fn = "derive_name_from_email" /\ ret.returned /\ HasAt /\ PartsOfLocal # <<>>) =>
        /\ ret.value.ok
        /\ (Len(PartsOfLocal) >= 2 /\ Len(PartsOfLocal[1]) = 1) =>
              /\ ret.value.first = <<UpperChar(PartsOfLocal[1][1])>>
              /\ ret.value.last = CapitalizeChars(PartsOfLocal[2])
        /\ (Len(PartsOfLocal) >= 2 /\ Len(PartsOfLocal[1]) # 1) =>
              /\ ret.value.first = CapitalizeChars(PartsOfLocal[1])
              /\ ret.value.last = CapitalizeChars(PartsOfLocal[2])
        /\ (Len(PartsOfLocal) = 1 /\ CamelSplits # {}) =>
              \E k \in CamelSplits :
                 /\ ret.value.first = SubSeq(PartsOfLocal[1], 1, k)
                 /\ ret.value.last = SubSeq(PartsOfLocal[1], k + 1, Len(PartsOfLocal[1]))
        /\ (Len(PartsOfLocal) = 1 /\ CamelSplits = {}) =>
              /\ ret.value.first = CapitalizeChars(PartsOfLocal[1])
              /\ ret.value.last = <<>>

\* a single part in camel case was split into its two words
C17_Witness ==
    /\ call.fn = "derive_name_from_email"
    /\ ret.returned
    /\ HasAt
    /\ Len(PartsOfLocal) = 1
    /\ CamelSplits # {}
    /\ ret.value.last # <<>>

\* ---------------------------------------------------------------- C18
\* C18: a "coach" line from which the single-line or the multi-line pass has
\* built a record gives no further record in the window pass, so that no
\* source line is the origin of two records of the list returned. The origin
\* of a record of the window pass is its provenance without the e-mail put
\* after it; the lines built from are the title lines of the multi-line pass
\* or the provenance lines of the single-line pass.
C18_OneRecordPerLine ==
    [][LET builtFrom ==
               IF multi_ran
               THEN {lines[i - TitleBack(lines, i)] :
                        i \in {j \in DOMAIN lines :
                                  EmailOf(lines[j]) # "" /\ TitleBack(lines, j) # 0}}
               ELSE {entries[k].full_line : k \in DOMAIN entries}
           WindowOrigin(e) ==
               IF e.email # "" THEN SubSeq(e.full_line, 1, Len(e.full_line) - 1)
               ELSE e.full_line
       IN  (pc = "window" /\ pc' = "post") =>
              \A k \in (Len(entries) + 1)..Len(entries') :
                 WindowOrigin(entries'[k]) \notin builtFrom]_vars

\* ---------------------------------------------------------------- C19
\* C19: in the window pass, for a "coach" line with no e-mail on it, the
\* e-mail attributed is that of the nearest e-mail line within 8 lines: no
\* e-mail line of the window is strictly closer to the "coach" line than the
\* one whose e-mail is used.
C19_NearestEmailLine ==
    LET Distance(i, j) == IF i >= j THEN i - j ELSE j - i
    IN  (call.fn = "window_email" /\ ret.returned /\ ret.value # 0) =>
            \A j \in DOMAIN call.lines :
                (/\ j # call.i
                 /\ EmailOf(call.lines[j]) # ""
                 /\ Distance(call.i, j) <= WindowRadius)
                => Distance(call.i, j) >= Distance(call.i, ret.value)

\* ---------------------------------------------------------------- C20
\* C20: a line recognised as a sport-section header never produces a record,
\* in any of the three passes. A record is built from a line when the line is
\* its provenance, alone, followed by the e-mail found for it, or as the title
\* line of a multi-line record.
C20_NoRecordFromSportHeader ==
    LET BuiltFromLine(e, line) ==
            \/ e.full_line = line
            \/ /\ e.email # ""
               /\ Len(e.full_line) > Len(line)
               /\ SubSeq(e.full_line, Len(e.full_line) - Len(line),
                         Len(e.full_line) - 1) = line
    IN  \A i \in DOMAIN lines : \A k \in DOMAIN entries :
            IsSportHeader(lines[i]) => ~BuiltFromLine(entries[k], lines[i])

\* ---------------------------------------------------------------- C21
\* C21: every record built from a line that follows a section header and
\* precedes the next header carries that header's label as its sport_section,
\* whichever pass emitted it; a record built from a line before any header
\* carries none. A record is built from a line when the line is its
\* provenance, alone, followed by the e-mail found for it, or as the title
\* line of a multi-line record; the label active at a line is the nearest
\* header above it.
C21_SectionLabelCarried ==
    LET Built(e, line) ==
            \/ e.full_line = line
            \/ /\ e.email # ""
               /\ Len(e.full_line) > Len(line)
               /\ SubSeq(e.full_line, Len(e.full_line) - Len(line),
                         Len(e.full_line) - 1) = line
        Active(i) ==
            IF \E j \in 1..(i - 1) : IsSportHeader(lines[j])
            THEN lines[CHOOSE j \in 1..(i - 1) :
                          /\ IsSportHeader(lines[j])
                          /\ \A m \in (j + 1)..(i - 1) : ~IsSportHeader(lines[m])]
            ELSE NoSection
        Origins(e) ==
            {i \in DOMAIN lines : lines[i] # <<>> /\ ~IsSportHeader(lines[i]) /\ Built(e, lines[i])}
    IN  \A k \in DOMAIN entries :
            Origins(entries[k]) # {} =>
                \E i \in Origins(entries[k]) : entries[k].sport_section = Active(i)


\* ---------------------------------------------------------------- C22
\* C22: when the section label given to map_to_coach_profile contains
\* 'basketball' or 'soccer', the returned sport tag is the women's variant of
\* a sport the label names if the label contains 'women', and the men's
\* variant if the label contains 'men' and not 'women'.
C22_MenWomenVariant ==
    LET label == LowerText(call.section)
        has(word) == Contains(label, Spell(word))
        WomenTags == {t \in {<<"Basketball (Women)">>, <<"Soccer (Women)">>} :
                         \/ t = <<"Basketball (Women)">> /\ has("basketball")
                         \/ t = <<"Soccer (Women)">> /\ has("soccer")}
        MenTags == {t \in {<<"Basketball (Men)">>, <<"Soccer (Men)">>} :
                       \/ t = <<"Basketball (Men)">> /\ has("basketball")
                       \/ t = <<"Soccer (Men)">> /\ has("soccer")}
    IN  (/\ call.fn = "map_to_coach_profile"
         /\ ret # NoReturn
         /\ has("basketball") \/ has("soccer"))
        => /\ has("women") => ret.value \in WomenTags
           /\ (has("men") /\ ~has("women")) => ret.value \in MenTags

\* ---------------------------------------------------------------- C23
\* C23: when the section label given to map_to_coach_profile contains
\* 'field hockey' and the keyword of no other section rule, the returned tag
\* list is the single tag 'Field Hockey'.
C23_FieldHockeyTag ==
    LET label == LowerText(call.section)
        has(word) == Contains(label, Spell(word))
    IN  (/\ call.fn = "map_to_coach_profile"
         /\ ret # NoReturn
         /\ has("field hockey")
         /\ \A other \in {"basketball", "soccer", "football", "baseball", "softball",
                          "swimming", "track", "cross country", "volleyball",
                          "lacrosse"} : ~has(other))
        => ret.value = <<"Field Hockey">>

\* ---------------------------------------------------------------- C24
\* C24: a record with no section label and no sport keyword in its full line
\* gets the default tag of its organization when the organization has one
\* (the Bryant men's soccer directory: 'Soccer') and otherwise exactly the
\* tag 'General Athletics'; the tag list is never empty.
C24_DefaultOrGenericTag ==
    LET info == call.pdf_info
        OrganizationDefault ==
            IF /\ Contains(LowerText(info.university), Spell("bryant"))
               /\ Contains(LowerText(info.source), Spell("soccer"))
            THEN <<"Soccer">> ELSE <<>>
    IN  (call.fn = "map_to_coach_profile" /\ ret # NoReturn)
        => /\ ret.value # <<>>
           /\ (/\ call.section = NoSection
               /\ KeywordSports(LowerText(call.full_line), 1, <<>>) = <<>>)
              => ret.value = (IF OrganizationDefault # <<>> THEN OrganizationDefault
                              ELSE <<"General Athletics">>)


\* ---------------------------------------------------------------- C25
\* C25: when parse_pdf has returned, the raw lines it kept for the appendix of
\* the report (write_to_txt writes all_lines, one bullet per element) hold
\* every line of the document that contains "coach", as the line itself or as
\* one side of a "title -> e-mail" pair of the multi-line pass; this includes
\* the lines whose record only the window pass produced.
C25_AppendixListsCoachLines ==
    LET Listed(raw, line) ==
            \/ raw = line
            \/ \E k \in DOMAIN raw :
                  /\ raw[k] = "->"
                  /\ line \in {SubSeq(raw, 1, k - 1), SubSeq(raw, k + 1, Len(raw))}
    IN  pc = "returned" =>
            \A i \in DOMAIN lines :
                HasCoach(lines[i]) => \E k \in DOMAIN all_lines : Listed(all_lines[k], lines[i])


\* ---------------------------------------------------------------- C26
\* C26: the line right above the title line is taken as the name in the
\* multi-line pass only if it holds no e-mail, no digit, no slash, no date
\* token (am, pm), no organizational stopword (coaching, staff, soccer,
\* university, director of) and at least two whitespace-separated tokens; in
\* particular a line that holds a digit is never taken.
C26_NameLineHoldsNoDigit ==
    LET line == call.line
        low == LowerText(line)
        HoldsDigit == \E i \in DOMAIN line :
                          line[i] \in {"0", "1", "2", "3", "4", "5", "6", "7", "8", "9"}
        Tokens == Cardinality({i \in DOMAIN line :
                                  line[i] # " " /\ (i = 1 \/ line[i - 1] = " ")})
    IN  (call.fn = "name_candidate" /\ ret # NoReturn /\ ret.value)
        => /\ ~HasEmailText(line)
           /\ ~HoldsDigit
           /\ ~Contains(line, <<"/">>)
           /\ \A word \in {"am", "pm", "coaching", "staff", "soccer", "university",
                           "director of"} : ~Contains(low, Spell(word))
           /\ Tokens >= 2


\* ---------------------------------------------------------------- C27
\* what the claim says of a token: the token without the punctuation around
\* it, whether that is name-shaped, and each reason to drop it
TokenFacts(token) ==
    LET around == {",", ".", ":", ";", "|", "/", "(", ")", "&", "[", "]", "{", "}", "-"}
        inner == {i \in DOMAIN token : token[i] \notin around}
        bare == IF inner = {} THEN <<>>
                ELSE SubSeq(token, CHOOSE i \in inner : \A j \in inner : i <= j,
                            CHOOSE i \in inner : \A j \in inner : i >= j)
        low == LowerText(bare)
        alpha(c) == LowerText(<<c>>)[1] \in
                        {"a", "b", "c", "d", "e", "f", "g", "h", "i", "j", "k", "l", "m",
                         "n", "o", "p", "q", "r", "s", "t", "u", "v", "w", "x", "y", "z"}
        stops == {Spell(w) : w \in StopWords}
    IN  [bare |-> bare,
         shaped |-> /\ Len(bare) >= 2 /\ alpha(bare[1])
                    /\ \A i \in 2..Len(bare) : alpha(bare[i]) \/ bare[i] \in {"'", "-"},
         digitOrAt |-> \E i \in DOMAIN bare :
                          bare[i] \in {"0", "1", "2", "3", "4", "5", "6", "7", "8", "9", "@"},
         stopword |-> low \in stops,
         stopPart |-> \E a, b \in DOMAIN low :
                         /\ a <= b /\ SubSeq(low, a, b) \in stops
                         /\ a = 1 \/ low[a - 1] \in {"-", "/"}
                         /\ b = Len(low) \/ low[b + 1] \in {"-", "/"},
         roleInside |-> \E w \in {"coach", "assistant", "associate", "head", "recruit",
                                  "coordinator", "director", "manager", "strength",
                                  "conditioning", "athletic", "operations", "performance"} :
                           Contains(low, Spell(w))]

\* C27 as stated: clean_name_tokens drops a name-shaped token only when it
\* holds a digit or '@', equals a stopword in any case, or has a hyphen- or
\* slash-separated part equal to a stopword; every other name-shaped token
\* survives.
C27_DroppedOnlyForStopword ==
    LET f == TokenFacts(call.token)
    IN  (call.fn = "clean_name_token" /\ ret # NoReturn /\ f.shaped)
        => IF f.digitOrAt \/ f.stopword \/ f.stopPart
           THEN ret.value = <<>> ELSE ret.value = <<f.bare>>

\* C27, amended: clean_name_tokens drops a name-shaped token exactly when it
\* holds a digit or '@', equals a stopword in any case, holds a role substring
\* (coach, head, recruit, ...) anywhere in it, or has a hyphen- or
\* slash-separated part equal to a stopword; every other name-shaped token
\* survives, without the punctuation around it.
C27_DroppedForStopwordOrRoleSubstring ==
    LET f == TokenFacts(call.token)
    IN  (call.fn = "clean_name_token" /\ ret # NoReturn /\ f.shaped)
        => IF f.digitOrAt \/ f.stopword \/ f.stopPart \/ f.roleInside
           THEN ret.value = <<>> ELSE ret.value = <<f.bare>>

\* a name-shaped surname that holds "head" has been dropped
C27_Witness ==
    /\ call.fn = "clean_name_token" /\ ret # NoReturn
    /\ call.token = Spell("Headley") /\ ret.value = <<>>


\* ---------------------------------------------------------------- C29
\* C29: parse_pdf never raises: whatever e-mail its pattern matches on a line,
\* also one whose local part holds only '.', '_' or '-', the name derivation
\* gives a (first, last) pair and the call ends by returning its records.
C29_ParseNeverRaises == pc # "raised"


\* ---------------------------------------------------------------- C30
\* C30: no step of the upload changes a profile that is claimed in the store,
\* also when the profile was claimed after upload_to_firestore read it and
\* before it writes it.
C30_ClaimedNeverOverwritten ==
    [][\A k \in StoreKeys :
          (store[k].exists /\ store[k].data.isClaimed) => store'[k] = store[k]]_vars


\* ---------------------------------------------------------------- C28
\* C28: in the rendering stage at most `concurrency` workers are inside
\* render_pdf at any moment, however many tasks there are and in whatever
\* order the renders finish.
C28_AtMostConcurrencyRendering ==
    call.fn \in {"run_all", "print_all_from_csv"} =>
        Cardinality({t \in DOMAIN workers : workers[t] = "rendering"}) <= call.concurrency

\* the pool is full with a task still waiting, after a render that was not
\* the first to start has finished first
C28_Witness ==
    /\ call.fn \in {"run_all", "print_all_from_csv"}
    /\ Cardinality({t \in DOMAIN workers : workers[t] = "rendering"}) = call.concurrency
    /\ call.concurrency > 1
    /\ \E t \in DOMAIN workers : workers[t] = "waiting"
    /\ results # <<>>

====
